---- MODULE Spec2Model ----
(***************************************************************************)
(* Verification model of the sandbox control plane:                        *)
(*   - the exec registry      (control-plane/cmd/control-plane/exec_registry.go) *)
(*   - the warm pool claim    (warm pool source, claimWarmNamespace)       *)
(*   - the stream hub         (stream hub source, publish/subscribe)       *)
(* Each subsystem has its own specification over the shared variables;     *)
(* the variables of the other subsystems stay at their initial value.      *)
(***************************************************************************)
EXTENDS Integers, Sequences, FiniteSets, TLC

VARIABLES
    \* ---- exec registry ----
    bySandbox,   \* execRegistry.bySandbox: sandboxID -> (execID -> execRecord)
    now,         \* the wall clock read by time.Now()
    invoked,     \* number of times each exec's cancel handle has been called
    canc,        \* per caller of requestCancel: where it is and what it returns
    lastReg,     \* the registry operation that produced the current state
    \* ---- cluster state and warm pool ----
    namespaces,  \* warm namespaces of the cluster: name index -> namespace object
    pods,        \* the pod "sandbox" of each namespace: "pending" or "ready"
    recon,       \* the reconciler goroutine (warmPool.run): position in its tick
    cl,          \* per create request: position in claimWarmNamespace and result
    wins,        \* per namespace: how many claim calls returned it with claimed=true
    \* ---- stream hub ----
    hubSeq,      \* streamHub.seq
    buffers,     \* streamHub.buffers: sandboxID -> [events, subs]
    chans,       \* the channel of each subscriber: its queue and whether it is open
    pubs,        \* per publisher: the event it has stamped and not yet published
    subscr,      \* per stream connection: position, sandbox and snapshot
    published,   \* per sandbox: every event published, in publish order
    lastHub,     \* the hub operation that produced the current state
    \* ---- exec handler, runner, sidecar forwarder, ingest ----
    execReqs,    \* per exec request: position in execSandbox, its context, its response
    runs,        \* per exec id: the remote exec call made for it and where it is
    cmd,         \* per exec id: the command in the sandbox pod
    files,       \* per exec id: its event files in the shared events directory
    fwd,         \* the sidecar's state map: what it has sent for each exec
    wire,        \* frames in flight on the sidecar's ingest connection
    ing,         \* the ingest connection's handler: the event it has stamped
    sandboxPod,  \* the sandbox's pod: "pending", "running" (not yet ready) or "ready"
    nsLastExec,  \* annotation sbx.last_exec_at of the sandbox namespace (0: unset)
    metricExecs, \* sandbox_exec_total
    \* ---- warm pool sizing ----
    wcfg,        \* the warm pool's cfg: {} before the pool is constructed, then {cfg}
    recent,      \* warmPool.recent: the times of the creates recorded
    creates,     \* every time recordCreate was called with autosize on
    lastSize,    \* the sizing call that produced the current state, and its result
    \* ---- warm pool goroutine: idle reaper ----
    reaper,      \* reapIdle: position in its loop, the list it read and its time.Now()
    booted,      \* whether the control plane has started on the cluster it found
    \* ---- sandbox idle reaper ----
    cluster,     \* the namespaces reapOnce lists: name -> labels, annotation, creation
    sreaper,     \* reapOnce: position in its loop, the list it read and its time.Now()
    \* ---- create handler ----
    creq,        \* per create request: its position in handleSandboxes and its locals
    kube,        \* the namespaces, volume claims and pods made by create requests
    metrics,     \* the expvar counters of creates
    \* ---- stream handler ----
    sconn,       \* per stream connection: its exec_id filter, its place in the
                 \* snapshot and the events it has written to the client
    \* ---- the registry mutex ----
    mu,          \* execRegistry.mu: the set of goroutines holding it (at most one)
    thr,         \* per goroutine using the registry: where it is in its operation
    hnd,         \* the cancel handle of the exec: what invoking it does
    \* ---- async execs in sandbox namespaces ----
    sbxRuns      \* per namespace: the async exec dispatched in it and when it ended

regVars == <<bySandbox, now, invoked, canc, lastReg>>
warmVars == <<namespaces, pods, recon, cl, wins>>

hubVars == <<hubSeq, buffers, chans, pubs, subscr, published, lastHub>>

execVars == <<execReqs, runs, cmd, files, fwd, wire, ing, sandboxPod, nsLastExec,
              metricExecs>>

sizeVars == <<wcfg, recent, creates, lastSize>>

poolVars == <<reaper, booted>>

sbxVars == <<cluster, sreaper>>

createVars == <<creq, kube, metrics>>

streamVars == <<sconn>>
lockVars == <<mu, thr, hnd>>
idleVars == <<sbxRuns>>

vars == <<bySandbox, now, invoked, canc, lastReg, namespaces, pods, recon, cl, wins,
          hubSeq, buffers, chans, pubs, subscr, published, lastHub,
          execReqs, runs, cmd, files, fwd, wire, ing, sandboxPod, nsLastExec,
          metricExecs, wcfg, recent, creates, lastSize, reaper, booted,
          cluster, sreaper, creq, kube, metrics, sconn, mu, thr, hnd,
         sbxRuns>>

(***************************************************************************)
(* Bounds of the model                                                     *)
(***************************************************************************)
MaxTime == 3        \* the clock runs 1..MaxTime
Retention == 1      \* execRegistry.retention, in clock ticks
MaxInvoke == 2      \* cap on cancel-handle invocations per exec
PoolSize == 2       \* warmPoolConfig.size (autosize off): the desired pool size
Limit == 2          \* streamHub.limit: the ring size N
ChanCap == 1        \* capacity of a subscriber channel
MaxSeq == 4         \* cap on the number of events stamped by the hub
MaxOut == 1         \* cap on the bytes a command writes to one output file
WireCap == 1        \* frames the ingest connection holds in flight
warmWindow == 2     \* warmWindow (60 s), in clock ticks
MaxCreates == 11    \* cap on the recordCreate calls of one run
DefaultMax == 10    \* the max of an autosized pool whose configured max is 0
idleTTL == 1        \* warmPoolConfig.idleTTL, in clock ticks

SandboxIDs == {"s1", "s2"}
ExecIDs == {"e1", "e2"}
Cancellers == {"c1"}
Timeouts == {{}, {1}}          \* timeoutSeconds *int: nil or a value
\* SpecReg: one exec goes through every operation with every error; a second
\* key is only ever looked up (the missing-record paths)
RegKeys == {<<"s1", "e1">>}
RegLookupKeys == {<<"s1", "e1">>, <<"s2", "e1">>}
\* SpecReap: two execs of one sandbox, finished with nil or a deadline error
ReapKeys == {<<"s1", "e1">>, <<"s1", "e2">>}
Claimers == {"a", "b"}         \* concurrent create requests without an id
Publishers == {"p1", "p2"}     \* async exec runners and ingest connections
Subscribers == {"u1", "u2"}    \* stream connections
\* SpecHub: one stream connection over two sandboxes; SpecFan: two stream
\* connections and one publisher on one sandbox
HubSubscribers == {"u1"}
FanPublishers == {"p1"}
FanSandbox == "s1"
\* the externalID argument of claimWarmNamespace: one request passes none
ExternalIDOf(c) == IF c = "a" THEN "" ELSE "ext"
ExitCodes == {0, 3}            \* exit statuses a CodeExitError may carry

(***************************************************************************)
(* Exec registry                                                           *)
(***************************************************************************)
execStatusRunning == "running"
execStatusCanceling == "canceling"
execStatusCompleted == "completed"
execStatusFailed == "failed"
execStatusCanceled == "canceled"
execStatusTimedOut == "timed_out"

\* The errors finish can be handed: nil, context.DeadlineExceeded,
\* context.Canceled, a utilsexec.CodeExitError, or any other error.
NilErr == [kind |-> "nil", code |-> 0, msg |-> ""]
DeadlineErr == [kind |-> "deadline", code |-> 0, msg |-> "context deadline exceeded"]
CanceledErr == [kind |-> "canceled", code |-> 0, msg |-> "context canceled"]
CodeErr(c) == [kind |-> "code", code |-> c, msg |-> "exit code " \o ToString(c)]
OtherErr == [kind |-> "other", code |-> 0, msg |-> "stream error"]
Errs == {NilErr, DeadlineErr, CanceledErr, OtherErr} \cup {CodeErr(c) : c \in ExitCodes}

\* exitCodeFromErr: (code, ok)
exitCodeFromErr(err) ==
    IF err.kind = "code" THEN [code |-> err.code, ok |-> TRUE]
    ELSE [code |-> 0, ok |-> FALSE]

isTerminalExecStatus(status) ==
    status \in {execStatusCompleted, execStatusFailed, execStatusCanceled, execStatusTimedOut}

\* getLocked: whether it finds a record (it returns nil when the sandbox or
\* the exec has none)
HasRec(reg, s, e) == s \in DOMAIN reg /\ e \in DOMAIN reg[s]

\* the (sandboxID, execID) keys that have a record
RecKeys(reg) == {k \in SandboxIDs \X ExecIDs : HasRec(reg, k[1], k[2])}

\* time.Time.Format(time.RFC3339Nano)
FormatTime(t) == <<"rfc3339nano", t>>

\* api.ExecStatusResponse{}: the zero value
ZeroResponse ==
    [sandbox_id |-> "", exec_id |-> "", status |-> "", timeout_seconds |-> {},
     started_at |-> <<>>, finished_at |-> <<>>, exit_code |-> {}, error |-> ""]

toAPI(rec) ==
    [sandbox_id |-> rec.sandboxID, exec_id |-> rec.execID, status |-> rec.status,
     timeout_seconds |-> rec.timeoutSeconds,
     started_at |-> FormatTime(rec.startedAt),
     finished_at |-> IF rec.finishedAt = {} THEN <<>>
                     ELSE FormatTime(CHOOSE t \in rec.finishedAt : TRUE),
     exit_code |-> rec.exitCode, error |-> rec.errMsg]

\* lastReg: the operation just performed, its arguments, and the status the
\* addressed record had before it ("none" when there was no record)
NoRet == [snapshot |-> ZeroResponse, existed |-> FALSE, cancel_invoked |-> FALSE]

Last(op, s, e, err, pre, ret) ==
    [op |-> op, sid |-> s, eid |-> e, err |-> err, pre |-> pre, ret |-> ret,
     removed |-> {}]

NoLast == Last("init", "", "", NilErr, "none", NoRet)

PreStatus(s, e) == IF HasRec(bySandbox, s, e) THEN bySandbox[s][e].status ELSE "none"

\* byExec[execID] = rec, creating the inner map when the sandbox has none
PutRec(reg, s, e, rec) ==
    IF s \in DOMAIN reg
    THEN [reg EXCEPT ![s] = [x \in DOMAIN reg[s] \cup {e} |->
                                 IF x = e THEN rec ELSE reg[s][x]]]
    ELSE [x \in DOMAIN reg \cup {s} |-> IF x = s THEN (e :> rec) ELSE reg[x]]

newExecRecord(s, e, timeout, t) ==
    [sandboxID |-> s, execID |-> e, status |-> execStatusRunning,
     timeoutSeconds |-> timeout, startedAt |-> t, finishedAt |-> {},
     exitCode |-> {}, errMsg |-> "", cancel |-> {<<s, e>>},
     cancelRequested |-> FALSE]

createRunning(s, e, timeout) ==
    /\ bySandbox' = PutRec(bySandbox, s, e, newExecRecord(s, e, timeout, now))
    /\ lastReg' = Last("createRunning", s, e, NilErr, PreStatus(s, e), NoRet)
    /\ UNCHANGED <<now, invoked, canc, warmVars, hubVars, execVars, sizeVars, poolVars,
                   sbxVars, createVars, streamVars, lockVars, idleVars>>

\* What requestCancel returns: (snapshot, existed, cancel_invoked)
CancelRet(snapshot, existed, inv) ==
    [snapshot |-> snapshot, existed |-> existed, cancel_invoked |-> inv]

\* A caller of requestCancel: idle, or between r.mu.Unlock() and cancel()
\* holding the handle it read, the key it addressed and what it will return
IdleCanc == [pc |-> "idle", handle |-> {}, sid |-> "", eid |-> "", pre |-> "none",
             ret |-> NoRet]

\* requestCancel, lines 112-115: the record after the locked update
markCancelRequested_NoFlag(rec) ==
    [rec EXCEPT !.status = IF rec.status = execStatusRunning
                           THEN execStatusCanceling ELSE rec.status]

markCancelRequested(rec) ==
    [rec EXCEPT !.cancelRequested = TRUE,
                !.status = IF rec.status = execStatusRunning
                           THEN execStatusCanceling ELSE rec.status]

\* requestCancel, lines 101-111: the record is terminal, or holds no handle
returnsWithoutCancel_Never(rec) == FALSE

returnsWithoutCancel(rec) == isTerminalExecStatus(rec.status) \/ rec.cancel = {}

\* requestCancel up to r.mu.Unlock(): the three early returns, or the locked
\* update after which the caller still has to call cancel().
requestCancel(c, s, e) ==
    /\ canc[c].pc = "idle"
    /\ invoked[<<s, e>>] < MaxInvoke
    /\ IF ~HasRec(bySandbox, s, e)
       THEN /\ lastReg' = Last("requestCancel", s, e, NilErr, "none",
                               CancelRet(ZeroResponse, FALSE, FALSE))
            /\ UNCHANGED <<bySandbox, canc>>
       ELSE LET rec == bySandbox[s][e] IN
            IF returnsWithoutCancel(rec)
            THEN /\ lastReg' = Last("requestCancel", s, e, NilErr, rec.status,
                                    CancelRet(toAPI(rec), TRUE, FALSE))
                 /\ UNCHANGED <<bySandbox, canc>>
            ELSE LET upd == markCancelRequested(rec) IN
                 /\ bySandbox' = [bySandbox EXCEPT ![s][e] = upd]
                 /\ canc' = [canc EXCEPT ![c] =
                                [pc |-> "invoke", handle |-> rec.cancel, sid |-> s,
                                 eid |-> e, pre |-> rec.status,
                                 ret |-> CancelRet(toAPI(upd), TRUE, TRUE)]]
                 /\ lastReg' = Last("requestCancelLocked", s, e, NilErr, rec.status, NoRet)
    /\ UNCHANGED <<now, invoked, warmVars, hubVars, execVars, sizeVars, poolVars, sbxVars,
                   createVars, streamVars, lockVars, idleVars>>

\* requestCancel, lines 118-119: cancel() outside the lock, then return
invokeCancel(c) ==
    /\ canc[c].pc = "invoke"
    /\ invoked' = [k \in DOMAIN invoked |->
                      IF k \in canc[c].handle THEN invoked[k] + 1 ELSE invoked[k]]
    /\ canc' = [canc EXCEPT ![c] = IdleCanc]
    /\ lastReg' = Last("requestCancel", canc[c].sid, canc[c].eid, NilErr, canc[c].pre,
                       canc[c].ret)
    /\ UNCHANGED <<bySandbox, now, warmVars, hubVars, execVars, sizeVars, poolVars,
                   sbxVars, createVars, streamVars, lockVars, idleVars>>

\* finish, lines 129-131
stampFinished_NoTime(rec, t) == [rec EXCEPT !.cancel = {}]

stampFinished(rec, t) == [rec EXCEPT !.finishedAt = {t}, !.cancel = {}]

\* finish, lines 141-143
timedOutRec_NoCode(r0, err) ==
    [r0 EXCEPT !.status = execStatusTimedOut, !.errMsg = err.msg]

timedOutRec(r0, err) ==
    [r0 EXCEPT !.status = execStatusTimedOut, !.exitCode = {124}, !.errMsg = err.msg]

\* finish, line 146: errors.Is(err, context.Canceled) && rec.cancelRequested
isRequestedCancel_AnyCancel(rec, err) == err.kind = "canceled"

isRequestedCancel(rec, err) == err.kind = "canceled" /\ rec.cancelRequested

\* finish, lines 152-154: the error carries an exit status and cancel was
\* requested for the record
exitedAfterCancel_Never(rec, ce) == FALSE

exitedAfterCancel(rec, ce) == ce.ok /\ rec.cancelRequested

\* finish, lines 129-166, on the record found: the finalized record
finishRec(rec, err, t) ==
    LET r0 == stampFinished(rec, t)
        ce == exitCodeFromErr(err)
        r1 == IF ce.ok THEN [r0 EXCEPT !.exitCode = {ce.code}] ELSE r0
    IN  IF err.kind = "nil"
        THEN [r0 EXCEPT !.status = execStatusCompleted, !.exitCode = {0}, !.errMsg = ""]
        ELSE IF err.kind = "deadline"
        THEN timedOutRec(r0, err)
        ELSE IF isRequestedCancel(rec, err)
        THEN [r0 EXCEPT !.status = execStatusCanceled, !.errMsg = ""]
        ELSE IF exitedAfterCancel(rec, ce)
        THEN [r1 EXCEPT !.status = execStatusCanceled, !.errMsg = ""]
        ELSE IF ce.ok /\ ce.code = 0
        THEN [r1 EXCEPT !.status = execStatusCompleted, !.errMsg = ""]
        ELSE [r1 EXCEPT !.status = execStatusFailed, !.errMsg = err.msg]

finish(s, e, err) ==
    /\ lastReg' = Last("finish", s, e, err, PreStatus(s, e), NoRet)
    /\ bySandbox' = IF HasRec(bySandbox, s, e)
                    THEN [bySandbox EXCEPT ![s][e] = finishRec(bySandbox[s][e], err, now)]
                    ELSE bySandbox
    /\ UNCHANGED <<now, invoked, canc, warmVars, hubVars, execVars, sizeVars, poolVars,
                   sbxVars, createVars, streamVars, lockVars, idleVars>>

\* reapExpired, lines 174-179: whether the sweep at time t deletes the record
expired_AtRetention(rec, t) ==
    /\ isTerminalExecStatus(rec.status)
    /\ rec.finishedAt # {}
    /\ \E f \in rec.finishedAt : t - f >= Retention

expired(rec, t) ==
    /\ isTerminalExecStatus(rec.status)
    /\ rec.finishedAt # {}
    /\ \E f \in rec.finishedAt : t - f > Retention

\* reapExpired: the registry after the sweep (emptied inner maps are deleted)
reapRegistry(reg, t) ==
    LET kept(s) == {e \in DOMAIN reg[s] : ~expired(reg[s][e], t)}
        left == {s \in DOMAIN reg : kept(s) # {}}
    IN  [s \in left |-> [e \in kept(s) |-> reg[s][e]]]

reapExpired ==
    /\ bySandbox' = reapRegistry(bySandbox, now)
    /\ lastReg' = [Last("reapExpired", "", "", NilErr, "none", NoRet) EXCEPT
                       !.removed = RecKeys(bySandbox) \ RecKeys(reapRegistry(bySandbox, now))]
    /\ UNCHANGED <<now, invoked, canc, warmVars, hubVars, execVars, sizeVars, poolVars,
                   sbxVars, createVars, streamVars, lockVars, idleVars>>

\* The async runner of a long-running command, as far as the registry sees it.
\* Dispatch: a record is inserted for a fresh exec id, with the cancel handle
\* of the exec's own context and no timeout.
runnerDispatch(s, e) ==
    /\ ~HasRec(bySandbox, s, e)
    /\ invoked[<<s, e>>] = 0
    /\ createRunning(s, e, {})

\* what the orchestrator reports for an exec call whose context was canceled:
\* the cancellation itself, or the exit status of the killed command
CancelReports == {CanceledErr} \cup {CodeErr(c) : c \in ExitCodes}

\* Completion: the command does not end by itself; once the handle of the exec
\* has been invoked the exec call returns with the orchestrator's report and
\* the runner calls finish, once.
runnerFinish(s, e, err) ==
    /\ invoked[<<s, e>>] > 0
    /\ HasRec(bySandbox, s, e)
    /\ ~isTerminalExecStatus(bySandbox[s][e].status)
    /\ finish(s, e, err)

\* time passes
Tick ==
    /\ now < MaxTime
    /\ now' = now + 1
    /\ lastReg' = Last("tick", "", "", NilErr, "none", NoRet)
    /\ UNCHANGED <<bySandbox, invoked, canc, warmVars, hubVars, execVars, sizeVars,
                   poolVars, sbxVars, createVars, streamVars, lockVars,
                   idleVars>>

InitReg ==
    /\ bySandbox = <<>>
    /\ now = 1
    /\ invoked = [k \in SandboxIDs \X ExecIDs |-> 0]
    /\ canc = [c \in Cancellers |-> IdleCanc]
    /\ lastReg = NoLast

(***************************************************************************)
(* The registry mutex.  One exec of one sandbox, the goroutines that use   *)
(* its record, and who holds execRegistry.mu.  finish, get and             *)
(* createRunning lock, run their body and unlock on return without waiting *)
(* for anything in between, so each of them is one step taken when the     *)
(* mutex is free; requestCancel is followed statement by statement.        *)
(***************************************************************************)
LockSandbox == "s1"
LockExec == "e1"
LockCancellers == {"c1", "c2"}
LockThreads == LockCancellers \cup {"runner", "getter"}

\* What invoking the handle does: "signal" cancels the context of the exec
\* call, whose goroutine (the runner) then calls finish; "finish" stands for a
\* handle that calls finish itself before it returns.
HandleKinds == {"signal", "finish"}

IdleThread == [pc |-> "idle", handle |-> {}]

\* requestCancel, line 117: the mutex at the call of cancel(), the caller t
\* having unlocked it
muAtCancel_StillLocked(m, t) == m

muAtCancel(m, t) == m \ {t}

\* r.mu.Lock(): the goroutine waits until the mutex is free
muLock(t) ==
    /\ thr[t].pc = "lock"
    /\ mu = {}
    /\ mu' = {t}
    /\ thr' = [thr EXCEPT ![t].pc = "held"]
    /\ UNCHANGED <<hnd, regVars, warmVars, hubVars, execVars, sizeVars, poolVars, sbxVars,
                   createVars, streamVars, idleVars>>

\* the runner inserts the record of the exec with its handle
lockDispatch(kind) ==
    /\ thr["runner"].pc = "idle"
    /\ mu = {}
    /\ bySandbox' = PutRec(bySandbox, LockSandbox, LockExec,
                           newExecRecord(LockSandbox, LockExec, {}, now))
    /\ thr' = [thr EXCEPT !["runner"].pc = "running"]
    /\ hnd' = [kind |-> kind, signalled |-> FALSE]
    /\ UNCHANGED <<mu, now, invoked, canc, lastReg, warmVars, hubVars, execVars, sizeVars,
                   poolVars, sbxVars, createVars, streamVars, idleVars>>

\* a cancel request arrives: requestCancel is called
lockCancelCall(c) ==
    /\ thr[c].pc = "idle"
    /\ thr' = [thr EXCEPT ![c].pc = "lock"]
    /\ UNCHANGED <<mu, hnd, regVars, warmVars, hubVars, execVars, sizeVars, poolVars,
                   sbxVars, createVars, streamVars, idleVars>>

\* requestCancel, lines 96-117: the locked part, up to the return of one of
\* the early exits or to the call of cancel()
lockCancelBody(c) ==
    /\ thr[c].pc = "held"
    /\ invoked[<<LockSandbox, LockExec>>] < MaxInvoke
    /\ IF ~HasRec(bySandbox, LockSandbox, LockExec)
       THEN /\ mu' = mu \ {c}
            /\ thr' = [thr EXCEPT ![c].pc = "done"]
            /\ UNCHANGED bySandbox
       ELSE LET rec == bySandbox[LockSandbox][LockExec] IN
            IF returnsWithoutCancel(rec)
            THEN /\ mu' = mu \ {c}
                 /\ thr' = [thr EXCEPT ![c].pc = "done"]
                 /\ UNCHANGED bySandbox
            ELSE /\ bySandbox' = [bySandbox EXCEPT ![LockSandbox][LockExec] =
                                      markCancelRequested(rec)]
                 /\ mu' = muAtCancel(mu, c)
                 /\ thr' = [thr EXCEPT ![c] = [pc |-> "cancel", handle |-> rec.cancel]]
    /\ UNCHANGED <<hnd, now, invoked, canc, lastReg, warmVars, hubVars, execVars, sizeVars,
                   poolVars, sbxVars, createVars, streamVars, idleVars>>

\* requestCancel, line 118: cancel() is called
lockCancelInvoke(c) ==
    /\ thr[c].pc = "cancel"
    /\ invoked' = [k \in DOMAIN invoked |->
                      IF k \in thr[c].handle THEN invoked[k] + 1 ELSE invoked[k]]
    /\ hnd' = [hnd EXCEPT !.signalled = TRUE]
    /\ thr' = [thr EXCEPT ![c].pc = IF hnd.kind = "finish" THEN "finish" ELSE "return"]
    /\ UNCHANGED <<mu, bySandbox, now, canc, lastReg, warmVars, hubVars, execVars,
                   sizeVars, poolVars, sbxVars, createVars, streamVars,
                   idleVars>>

\* finish called by goroutine t, which goes on at pc next
lockFinish(t, err, next) ==
    /\ thr[t].pc = "finish"
    /\ mu = {}
    /\ bySandbox' = IF HasRec(bySandbox, LockSandbox, LockExec)
                    THEN [bySandbox EXCEPT ![LockSandbox][LockExec] =
                              finishRec(bySandbox[LockSandbox][LockExec], err, now)]
                    ELSE bySandbox
    /\ thr' = [thr EXCEPT ![t].pc = next]
    /\ UNCHANGED <<mu, hnd, now, invoked, canc, lastReg, warmVars, hubVars, execVars,
                   sizeVars, poolVars, sbxVars, createVars, streamVars,
                   idleVars>>

\* requestCancel, line 119: the caller returns; a lock it still held at that
\* point would be released by the return
lockCancelReturn(c) ==
    /\ thr[c].pc = "return"
    /\ mu' = mu \ {c}
    /\ thr' = [thr EXCEPT ![c].pc = "done"]
    /\ UNCHANGED <<hnd, regVars, warmVars, hubVars, execVars, sizeVars, poolVars, sbxVars,
                   createVars, streamVars, idleVars>>

\* the exec call of the runner returns: the command ended, or the context was
\* canceled; the runner goes on to finish
lockExecReturns ==
    /\ thr["runner"].pc = "running"
    /\ thr' = [thr EXCEPT !["runner"].pc = "finish"]
    /\ UNCHANGED <<mu, hnd, regVars, warmVars, hubVars, execVars, sizeVars, poolVars,
                   sbxVars, createVars, streamVars, idleVars>>

\* a status request arrives; get, lines 84-92
lockGetCall ==
    /\ thr["getter"].pc = "idle"
    /\ thr' = [thr EXCEPT !["getter"].pc = "get"]
    /\ UNCHANGED <<mu, hnd, regVars, warmVars, hubVars, execVars, sizeVars, poolVars,
                   sbxVars, createVars, streamVars, idleVars>>

lockGet ==
    /\ thr["getter"].pc = "get"
    /\ mu = {}
    /\ thr' = [thr EXCEPT !["getter"].pc = "done"]
    /\ lastReg' = Last("get", LockSandbox, LockExec, NilErr,
                       PreStatus(LockSandbox, LockExec), NoRet)
    /\ UNCHANGED <<mu, hnd, bySandbox, now, invoked, canc, warmVars, hubVars, execVars,
                   sizeVars, poolVars, sbxVars, createVars, streamVars,
                   idleVars>>

InitLock ==
    /\ mu = {}
    /\ thr = [t \in LockThreads |-> IdleThread]
    /\ hnd = [kind |-> "signal", signalled |-> FALSE]

(***************************************************************************)
(* Cluster and warm pool.  A warm namespace "sbx-warm-<i>" is named by its *)
(* index i; for the indices used here (below 10) the order of the names is *)
(* the order of the indices.                                               *)
(***************************************************************************)
\* the indices this pool creates and one more, which a larger pool of an
\* earlier run may have left in the cluster
WarmNames == 1..(PoolSize + 1)

\* A namespace object: labels sbx.pool / sbx.state / sbx.external_id, annotation
\* sbx.last_exec_at (0 stands for "0") and metadata.resourceVersion
NsObject(n, state, ext, last, rv) ==
    [name |-> n, pool |-> "warm", state |-> state, externalID |-> ext,
     lastExecAt |-> last, rv |-> rv]

RECURSIVE SortByName(_)
\* the names of S in ascending order (sort.Slice by Name, line 199)
SortByName(S) ==
    IF S = {} THEN <<>>
    ELSE LET m == CHOOSE x \in S : \A y \in S : x <= y
         IN  <<m>> \o SortByName(S \ {m})

\* Namespaces().List with a label selector: copies of the matching objects
ListNamespaces(states) ==
    LET match == {n \in DOMAIN namespaces : namespaces[n].state \in states}
        order == SortByName(match)
    IN  [i \in 1..Len(order) |-> namespaces[order[i]]]

\* Namespaces().Update(obj): the orchestrator's optimistic concurrency check
UpdateResult(obj) ==
    IF obj.name \notin DOMAIN namespaces THEN "notfound"
    ELSE IF namespaces[obj.name].rv # obj.rv THEN "conflict"
    ELSE "ok"

ApplyUpdate(obj) ==
    [namespaces EXCEPT ![obj.name] = [obj EXCEPT !.rv = obj.rv + 1]]

\* isPodReady: the pod exists, is Running and has condition PodReady
isPodReady_Exists(n) == n \in DOMAIN pods

isPodReady(n) == n \in DOMAIN pods /\ pods[n] = "ready"

\* desiredSize with autosize off, line 96
desiredSize == PoolSize

\* ensureWarmNamespaces, line 256: the creation loop starts at the number of
\* warm namespaces listed
createFrom_Zero(items) == 0

createFrom(items) == Len(items)

IdleRecon == [pc |-> "idle", items |-> <<>>, i |-> 0, desired |-> 0]

\* ensureWarmNamespaces, lines 226-240: desired size and the list of warm namespaces
reconList ==
    /\ recon.pc = "idle"
    /\ recon' = [pc |-> "promote", items |-> ListNamespaces({"creating", "ready", "claimed"}),
                 i |-> 1, desired |-> desiredSize]
    /\ UNCHANGED <<namespaces, pods, cl, wins, regVars, hubVars, execVars, sizeVars,
                   poolVars, sbxVars, createVars, streamVars, lockVars,
                   idleVars>>

\* ensureWarmNamespaces, lines 241-255: one iteration of the promotion loop,
\* or the end of the loop
reconPromote ==
    /\ recon.pc = "promote"
    /\ IF recon.i <= Len(recon.items)
       THEN LET ns == recon.items[recon.i]
                obj == [ns EXCEPT !.state = "ready"]
            IN  /\ namespaces' = IF ns.state = "creating" /\ isPodReady(ns.name)
                                     /\ UpdateResult(obj) = "ok"
                                  THEN ApplyUpdate(obj)
                                  ELSE namespaces
                /\ recon' = [recon EXCEPT !.i = recon.i + 1]
       ELSE /\ recon' = IF Len(recon.items) >= recon.desired
                        THEN IdleRecon
                        ELSE [recon EXCEPT !.pc = "create", !.i = createFrom(recon.items)]
            /\ UNCHANGED namespaces
    /\ UNCHANGED <<pods, cl, wins, regVars, hubVars, execVars, sizeVars, poolVars, sbxVars,
                   createVars, streamVars, lockVars, idleVars>>

\* ensureWarmNamespaces, lines 256-297: one iteration of the creation loop
\* (Create errors such as AlreadyExists are ignored), or its end
reconCreate ==
    /\ recon.pc = "create"
    /\ IF recon.i < recon.desired
       THEN LET n == recon.i + 1
                created == IF n \in DOMAIN namespaces THEN namespaces
                           ELSE [x \in DOMAIN namespaces \cup {n} |->
                                    IF x = n THEN NsObject(n, "creating", "", 0, 1)
                                    ELSE namespaces[x]]
            IN  /\ namespaces' = created
                /\ pods' = IF n \in DOMAIN pods THEN pods
                           ELSE [x \in DOMAIN pods \cup {n} |->
                                    IF x = n THEN "pending" ELSE pods[x]]
                /\ recon' = [recon EXCEPT !.i = recon.i + 1]
       ELSE /\ recon' = IdleRecon
            /\ UNCHANGED <<namespaces, pods>>
    /\ UNCHANGED <<cl, wins, regVars, hubVars, execVars, sizeVars, poolVars, sbxVars,
                   createVars, streamVars, lockVars, idleVars>>

\* the kubelet reports the pod Running and ready, or not ready any more
podBecomesReady(n) ==
    /\ n \in DOMAIN pods /\ pods[n] = "pending"
    /\ pods' = [pods EXCEPT ![n] = "ready"]
    /\ UNCHANGED <<namespaces, recon, cl, wins, regVars, hubVars, execVars, sizeVars,
                   poolVars, sbxVars, createVars, streamVars, lockVars,
                   idleVars>>

podBecomesUnready(n) ==
    /\ n \in DOMAIN pods /\ pods[n] = "ready"
    /\ pods' = [pods EXCEPT ![n] = "pending"]
    /\ UNCHANGED <<namespaces, recon, cl, wins, regVars, hubVars, execVars, sizeVars,
                   poolVars, sbxVars, createVars, streamVars, lockVars,
                   idleVars>>

\* What claimWarmNamespace returns: (name, claimed, err); name 0 stands for "".
\* A claimer keeps, in lost, the namespace whose update was rejected with a
\* conflict (0: none).
ClaimRet(n, claimed, err) == [name |-> n, claimed |-> claimed, err |-> err]

IdleClaimer ==
    [pc |-> "idle", ext |-> "", items |-> <<>>, i |-> 0, lost |-> 0,
     ret |-> ClaimRet(0, FALSE, "nil")]

\* claimWarmNamespace, lines 188-199: list the ready warm namespaces, sorted
claimList(c, ext) ==
    /\ cl[c].pc = "idle"
    /\ LET items == ListNamespaces({"ready"}) IN
       cl' = [cl EXCEPT ![c] =
                IF Len(items) = 0
                THEN [IdleClaimer EXCEPT !.pc = "done", !.ext = ext]
                ELSE [IdleClaimer EXCEPT !.pc = "check", !.ext = ext,
                                         !.items = items, !.i = 1]]
    /\ UNCHANGED <<namespaces, pods, recon, wins, regVars, hubVars, execVars, sizeVars,
                   poolVars, sbxVars, createVars, streamVars, lockVars,
                   idleVars>>

\* claimWarmNamespace, lines 200-204: the readiness check of the candidate
claimCheck(c) ==
    /\ cl[c].pc = "check"
    /\ cl' = [cl EXCEPT ![c] =
                IF isPodReady(cl[c].items[cl[c].i].name)
                THEN [cl[c] EXCEPT !.pc = "update"]
                ELSE IF cl[c].i < Len(cl[c].items)
                THEN [cl[c] EXCEPT !.i = cl[c].i + 1]
                ELSE [IdleClaimer EXCEPT !.pc = "done", !.ext = cl[c].ext]]
    /\ UNCHANGED <<namespaces, pods, recon, wins, regVars, hubVars, execVars, sizeVars,
                   poolVars, sbxVars, createVars, streamVars, lockVars,
                   idleVars>>

\* claimWarmNamespace, lines 205-216: the object sent to Update; it is the
\* listed copy, so it carries the resourceVersion read by List
claimObject_Refetched(c) ==
    LET cand == cl[c].items[cl[c].i]
        cur == IF cand.name \in DOMAIN namespaces THEN namespaces[cand.name] ELSE cand
    IN  [cur EXCEPT !.state = "claimed",
                    !.externalID = IF cl[c].ext # "" THEN cl[c].ext ELSE cur.externalID,
                    !.lastExecAt = now]

claimObject(c) ==
    LET cand == cl[c].items[cl[c].i]
    IN  [cand EXCEPT !.state = "claimed",
                     !.externalID = IF cl[c].ext # "" THEN cl[c].ext ELSE cand.externalID,
                     !.lastExecAt = now]

\* claimWarmNamespace, lines 216-220: the update and the return
claimUpdate(c) ==
    /\ cl[c].pc = "update"
    /\ LET obj == claimObject(c)
           res == UpdateResult(obj)
       IN  IF res = "ok"
           THEN /\ namespaces' = ApplyUpdate(obj)
                /\ wins' = [wins EXCEPT ![obj.name] = wins[obj.name] + 1]
                /\ cl' = [cl EXCEPT ![c] =
                            [IdleClaimer EXCEPT !.pc = "done", !.ext = cl[c].ext,
                                                !.ret = ClaimRet(obj.name, TRUE, "nil")]]
           ELSE /\ cl' = [cl EXCEPT ![c] =
                            [IdleClaimer EXCEPT !.pc = "done", !.ext = cl[c].ext,
                                 !.lost = IF res = "conflict" THEN obj.name ELSE 0,
                                 !.ret = ClaimRet(0, FALSE, res)]]
                /\ UNCHANGED <<namespaces, wins>>
    /\ UNCHANGED <<pods, recon, regVars, hubVars, execVars, sizeVars, poolVars, sbxVars,
                   createVars, streamVars, lockVars, idleVars>>

\* handleSandboxes, lines 146-160: what the create request does with the result
handlerOutcome(ret) ==
    IF ret.err = "nil" /\ ret.claimed THEN "warm"
    ELSE IF ret.err # "nil" THEN "http500"
    ELSE "cold"

\* the request is over; the next one starts afresh
claimReturn(c) ==
    /\ cl[c].pc = "done"
    /\ cl' = [cl EXCEPT ![c] = IdleClaimer]
    /\ UNCHANGED <<namespaces, pods, recon, wins, regVars, hubVars, execVars, sizeVars,
                   poolVars, sbxVars, createVars, streamVars, lockVars,
                   idleVars>>

\* Namespaces().Delete(name): the namespace goes, and its pod with it
DeleteNamespace(nss, n) == [x \in DOMAIN nss \ {n} |-> nss[x]]

IdleReaper == [pc |-> "idle", items |-> <<>>, i |-> 0, at |-> 0]

\* reapIdle, lines 311-322: the listed namespace has a last_exec_at that is
\* not "0" and lies more than idleTTL before now (warm namespaces are created
\* with "0" and a claim writes the time, so "" does not occur)
shouldReap_AtTTL(ns, t) == ns.lastExecAt # 0 /\ t - ns.lastExecAt >= idleTTL

shouldReap(ns, t) == ns.lastExecAt # 0 /\ t - ns.lastExecAt > idleTTL

\* reapIdle, lines 301-309: the claimed warm namespaces are listed; run calls
\* reapIdle after ensureWarmNamespaces, in the same goroutine
reapList ==
    /\ booted
    /\ reaper.pc = "idle"
    /\ recon.pc = "idle"
    /\ reaper' = [pc |-> "loop", items |-> ListNamespaces({"claimed"}), i |-> 1,
                  at |-> now]
    /\ UNCHANGED <<booted, warmVars, regVars, hubVars, execVars, sizeVars, sbxVars,
                   createVars, streamVars, lockVars, idleVars>>

\* reapIdle, lines 310-326: one iteration of the loop, or its end
reapStep ==
    /\ reaper.pc = "loop"
    /\ IF reaper.i <= Len(reaper.items)
       THEN LET ns == reaper.items[reaper.i] IN
            /\ namespaces' = IF shouldReap(ns, reaper.at)
                              THEN DeleteNamespace(namespaces, ns.name)
                              ELSE namespaces
            /\ pods' = IF shouldReap(ns, reaper.at)
                        THEN DeleteNamespace(pods, ns.name)
                        ELSE pods
            /\ reaper' = [reaper EXCEPT !.i = reaper.i + 1]
       ELSE /\ reaper' = IdleReaper
            /\ UNCHANGED <<namespaces, pods>>
    /\ UNCHANGED <<booted, recon, cl, wins, regVars, hubVars, execVars, sizeVars, sbxVars,
                   createVars, streamVars, lockVars, idleVars>>

\* the tick of run: ensureWarmNamespaces starts when reapIdle is not running
tickList ==
    /\ booted
    /\ reaper.pc = "idle"
    /\ reconList

\* updateLastExec after an exec in a claimed warm sandbox: the annotation
\* sbx.last_exec_at is set to the time of the exec
execTouches(n) ==
    /\ n \in DOMAIN namespaces
    /\ namespaces[n].state = "claimed"
    /\ namespaces[n].lastExecAt < now
    /\ namespaces' = [namespaces EXCEPT ![n].lastExecAt = now, ![n].rv = @ + 1]
    /\ UNCHANGED <<pods, recon, cl, wins, poolVars, regVars, hubVars, execVars, sizeVars,
                   sbxVars, createVars, streamVars, lockVars, idleVars>>

\* main, lines 79-84: the control plane starts on the cluster as it is; warm
\* namespaces of an earlier run, ready or claimed, may be there
startOnCluster(found) ==
    /\ ~booted
    /\ booted' = TRUE
    /\ namespaces' = [n \in DOMAIN found |->
                         NsObject(n, found[n], "",
                                  IF found[n] = "claimed" THEN now ELSE 0, 1)]
    /\ pods' = [n \in DOMAIN found |-> "ready"]
    /\ UNCHANGED <<reaper, recon, cl, wins, regVars, hubVars, execVars, sizeVars, sbxVars,
                   createVars, streamVars, lockVars, idleVars>>

(***************************************************************************)
(* Sandbox idle reaper (reaper.go).  A namespace name is its sequence of   *)
(* characters.                                                             *)
(***************************************************************************)
\* strings.HasPrefix
HasPrefix(str, prefix) ==
    Len(str) >= Len(prefix) /\ SubSeq(str, 1, Len(prefix)) = prefix

SbxPrefix == <<"s", "b", "x", "-">>

\* the namespaces of the cluster: two sandboxes and one that is none
SandboxA == SbxPrefix \o <<"a">>
SandboxB == SbxPrefix \o <<"b">>
NoSandbox == <<"s", "b", "x", "a">>
ClusterNames == {SandboxA, SandboxB, NoSandbox}

\* label sbx.allocated: no labels at all, or the value "false" or "true";
\* the create handler sets no labels of its own (SandboxA, NoSandbox), an
\* operator's tool labels the namespaces it makes (SandboxB)
Allocations(name) ==
    IF name = SandboxB THEN {{"false"}, {"true"}} ELSE {{}}

\* A namespace as listed: label sbx.allocated, annotation sbx.last_exec_at
\* ({}: unset, {0}: "0", {t}: a time) and metadata.creationTimestamp
ClusterNs(name, alloc, last, created) ==
    [name |-> name, allocated |-> alloc, lastExecAt |-> last, created |-> created]

\* reapOnce, line 27: SANDBOX_IDLE_TTL, in clock ticks; positive, or reapOnce
\* returns at once
sandboxIdleTTL == idleTTL

\* reapOnce, lines 45-54: the time the namespace was last used
lastTimeOf_NoFallback(ns) ==
    IF ns.lastExecAt \in {{}, {0}} THEN 0
    ELSE CHOOSE t \in ns.lastExecAt : TRUE

lastTimeOf(ns) ==
    IF ns.lastExecAt \in {{}, {0}} THEN ns.created
    ELSE CHOOSE t \in ns.lastExecAt : TRUE

\* reapOnce, lines 36-56: whether the listed namespace is deleted
reapsSandbox(ns, t) ==
    /\ HasPrefix(ns.name, SbxPrefix)
    /\ ns.allocated # {"false"}
    /\ t - lastTimeOf(ns) > sandboxIdleTTL

IdleSbxReaper == [pc |-> "idle", items |-> <<>>, i |-> 0, at |-> 0]

RECURSIVE SeqOfSet(_)
\* the elements of S in some fixed order (the order of the List answer)
SeqOfSet(S) ==
    IF S = {} THEN <<>>
    ELSE LET x == CHOOSE y \in S : TRUE IN <<x>> \o SeqOfSet(S \ {x})

\* a namespace is created: a sandbox by the create handler (no labels), a
\* namespace of the operator or of another tool with its labels
nsAppears(name, alloc) ==
    /\ name \notin DOMAIN cluster
    /\ cluster' = [x \in DOMAIN cluster \cup {name} |->
                      IF x = name THEN ClusterNs(name, alloc, {}, now) ELSE cluster[x]]
    /\ UNCHANGED <<sreaper, regVars, warmVars, hubVars, execVars, sizeVars, poolVars,
                   createVars, streamVars, lockVars, idleVars>>

\* updateLastExec, lines 461-472, after an exec in the sandbox: the exec
\* handler addresses sandboxNamespace(id), a name that starts with sbx-
sbxExec(name) ==
    /\ name \in DOMAIN cluster
    /\ HasPrefix(name, SbxPrefix)
    /\ cluster[name].lastExecAt # {now}
    /\ cluster' = [cluster EXCEPT ![name].lastExecAt = {now}]
    /\ UNCHANGED <<sreaper, regVars, warmVars, hubVars, execVars, sizeVars, poolVars,
                   createVars, streamVars, lockVars, idleVars>>

\* reapOnce, lines 27-35: the ttl is positive, all namespaces are listed
sreapList ==
    /\ sreaper.pc = "idle"
    /\ sreaper' = [pc |-> "loop",
                   items |-> SeqOfSet({cluster[n] : n \in DOMAIN cluster}),
                   i |-> 1, at |-> now]
    /\ UNCHANGED <<cluster, regVars, warmVars, hubVars, execVars, sizeVars, poolVars,
                   createVars, streamVars, lockVars, idleVars>>

\* reapOnce, lines 36-59: one iteration of the loop, or its end
sreapStep ==
    /\ sreaper.pc = "loop"
    /\ IF sreaper.i <= Len(sreaper.items)
       THEN LET ns == sreaper.items[sreaper.i] IN
            /\ cluster' = IF reapsSandbox(ns, sreaper.at)
                           THEN DeleteNamespace(cluster, ns.name)
                           ELSE cluster
            /\ sreaper' = [sreaper EXCEPT !.i = sreaper.i + 1]
       ELSE /\ sreaper' = IdleSbxReaper
            /\ UNCHANGED cluster
    /\ UNCHANGED <<regVars, warmVars, hubVars, execVars, sizeVars, poolVars, createVars,
                   streamVars, lockVars, idleVars>>

InitSbx ==
    /\ cluster = <<>>
    /\ sreaper = IdleSbxReaper

InitPool ==
    /\ reaper = IdleReaper
    /\ booted = FALSE

InitWarm ==
    /\ namespaces = <<>>
    /\ pods = <<>>
    /\ recon = IdleRecon
    /\ cl = [c \in Claimers |-> IdleClaimer]
    /\ wins = [n \in WarmNames |-> 0]

(***************************************************************************)
(* Warm pool sizing: warmPoolConfigFromEnv, recordCreate, desiredSize      *)
(***************************************************************************)
\* the settings SANDBOX_WARM_POOL_SIZE, _MIN, _MAX and _AUTOSIZE
WarmEnvs ==
    [size : {0, 2}, min : {0, 1}, max : {0, 2}, autosize : BOOLEAN]

\* warmPoolConfigFromEnv, lines 42-52
warmPoolConfigFromEnv(env) ==
    IF env.autosize /\ env.max = 0 THEN [env EXCEPT !.max = DefaultMax] ELSE env

\* pruneLocked: the entries after the cut (now - warmWindow) are kept, in order
pruneLocked_AtHorizon(rec, t) ==
    SelectSeq(rec, LAMBDA x : x >= t - warmWindow)

pruneLocked(rec, t) ==
    SelectSeq(rec, LAMBDA x : x > t - warmWindow)

\* desiredSize, lines 95-109, on the pruned window
desiredOf(cfg, rec) ==
    IF ~cfg.autosize THEN cfg.size
    ELSE LET d0 == Len(rec)
             d1 == IF d0 < cfg.min THEN cfg.min ELSE d0
         IN  IF cfg.max > 0 /\ d1 > cfg.max THEN cfg.max ELSE d1

\* w.cfg of the constructed pool
Cfg == CHOOSE c \in wcfg : TRUE

LastSize(op, ret) == [op |-> op, ret |-> ret, at |-> now]

\* main: the configuration is read and the pool constructed
newWarmPool(env) ==
    /\ wcfg = {}
    /\ wcfg' = {warmPoolConfigFromEnv(env)}
    /\ lastSize' = LastSize("newWarmPool", 0)
    /\ UNCHANGED <<recent, creates, regVars, warmVars, hubVars, execVars, poolVars,
                   sbxVars, createVars, streamVars, lockVars, idleVars>>

\* recordCreate, lines 81-89
recordCreate ==
    /\ wcfg # {}
    /\ Len(creates) < MaxCreates
    /\ IF ~Cfg.autosize
       THEN UNCHANGED <<recent, creates>>
       ELSE /\ recent' = pruneLocked(Append(recent, now), now)
            /\ creates' = Append(creates, now)
    /\ lastSize' = LastSize("recordCreate", 0)
    /\ UNCHANGED <<wcfg, regVars, warmVars, hubVars, execVars, poolVars, sbxVars,
                   createVars, streamVars, lockVars, idleVars>>

\* desiredSize, lines 91-110
desiredSizeCall ==
    /\ wcfg # {}
    /\ recent' = IF Cfg.autosize THEN pruneLocked(recent, now) ELSE recent
    /\ lastSize' = LastSize("desiredSize", desiredOf(Cfg, recent'))
    /\ UNCHANGED <<wcfg, creates, regVars, warmVars, hubVars, execVars, poolVars, sbxVars,
                   createVars, streamVars, lockVars, idleVars>>

InitSize ==
    /\ wcfg = {}
    /\ recent = <<>>
    /\ creates = <<>>
    /\ lastSize = [op |-> "init", ret |-> 0, at |-> 0]

(***************************************************************************)
(* Create handler (main.go, handleSandboxes).  Ids and names are sequences *)
(* of characters.                                                          *)
(***************************************************************************)
LowerAlnum == {"a", "b", "w", "x", "0", "1", "2"}

\* validID, lines 606-609: ^[a-z0-9]([-a-z0-9]*[a-z0-9])?$
validID(id) ==
    /\ Len(id) >= 1
    /\ id[1] \in LowerAlnum /\ id[Len(id)] \in LowerAlnum
    /\ \A i \in 1..Len(id) : id[i] \in LowerAlnum \cup {"-"}

\* generateID, lines 697-701: the hex form of random bytes; the ids of two
\* requests differ
generateID(r) == IF r = "a" THEN <<"a", "1">> ELSE <<"b", "2">>

\* sandboxNamespace, lines 602-604
sandboxNamespace(id) == SbxPrefix \o id

Digits == <<"1", "2", "3", "4", "5", "6", "7", "8", "9">>

\* the name of warm namespace n: sbx-warm-<n>
warmNamespaceName(n) == SbxPrefix \o <<"w", "a", "r", "m", "-", Digits[n]>>

\* enabled, lines 64-72
enabled(w) ==
    /\ w # {}
    /\ LET c == CHOOSE x \in w : TRUE
       IN  IF c.autosize THEN c.max > 0 \/ c.min > 0 ELSE c.size > 0

\* handleSandboxes, line 148: whether the request tries a warm claim
triesWarmClaim_AnyID(requestedID) == enabled(wcfg)

triesWarmClaim(requestedID) == requestedID = <<>> /\ enabled(wcfg)

\* the create requests: no id, a valid id or an invalid one; the workspace
\* on a volume claim or not; the cache on a volume claim or not
RequestIDs == {<<>>, <<"x">>, <<"X">>}
CreateRequests ==
    [id : RequestIDs, volumeMode : {"emptydir", "pvc"}, cachePVC : BOOLEAN]

IdleCreate ==
    [pc |-> "idle", req |-> [id |-> <<>>, volumeMode |-> "emptydir", cachePVC |-> FALSE],
     id |-> <<>>, ns |-> <<>>, warmClaimed |-> FALSE, stage |-> "", code |-> 0]

\* handleSandboxes, lines 161-197: the ensure call that follows a stage
nextStage(req, stage) ==
    IF stage = "namespace" /\ req.volumeMode = "pvc" THEN "pvc"
    ELSE IF stage \in {"namespace", "pvc"} /\ req.cachePVC THEN "cache"
    ELSE IF stage \in {"namespace", "pvc", "cache"} THEN "pod"
    ELSE ""

advance(rec) ==
    LET next == nextStage(rec.req, rec.stage)
    IN  IF next = "" THEN [rec EXCEPT !.pc = "respond", !.stage = ""]
        ELSE [rec EXCEPT !.pc = "get", !.stage = next]

\* the Get of ensureNamespace, ensurePVC, ensureCachePVC and ensurePod
hasObject(stage, ns) ==
    CASE stage = "namespace" ->
           ns \in kube.namespace
           \/ \E n \in DOMAIN namespaces : warmNamespaceName(n) = ns
      [] stage = "pvc" -> <<ns, "workspace">> \in kube.pvc
      [] stage = "cache" -> <<ns, "cache">> \in kube.pvc
      [] stage = "pod" ->
           ns \in kube.pod \/ \E n \in DOMAIN pods : warmNamespaceName(n) = ns

\* the Create of the four ensure functions
withObject(stage, ns) ==
    CASE stage = "namespace" -> [kube EXCEPT !.namespace = @ \cup {ns}]
      [] stage = "pvc" -> [kube EXCEPT !.pvc = @ \cup {<<ns, "workspace">>}]
      [] stage = "cache" -> [kube EXCEPT !.pvc = @ \cup {<<ns, "cache">>}]
      [] stage = "pod" -> [kube EXCEPT !.pod = @ \cup {ns}]

\* what the ensure function returns when its Create answers AlreadyExists:
\* ensureNamespace nil (line 377), the others the error (lines 403, 423 and
\* part_006 line 187)
onAlreadyExists(stage) == IF stage = "namespace" THEN "nil" ELSE "AlreadyExists"

\* handleSandboxes, lines 110-160, up to the warm claim
createStart(r, req) ==
    /\ creq[r].pc = "idle"
    /\ wcfg # {} /\ booted
    /\ LET id == IF req.id = <<>> THEN generateID(r) ELSE req.id
           rec == [IdleCreate EXCEPT !.req = req, !.id = id]
       IN  creq' = [creq EXCEPT ![r] =
                IF ~validID(id) THEN [rec EXCEPT !.pc = "done", !.code = 400]
                ELSE IF triesWarmClaim(req.id) THEN [rec EXCEPT !.pc = "claim", !.ns = id]
                ELSE [rec EXCEPT !.pc = "get", !.stage = "namespace",
                                 !.ns = sandboxNamespace(id)]]
    /\ UNCHANGED <<kube, metrics, regVars, warmVars, hubVars, execVars, sizeVars,
                   poolVars, sbxVars, streamVars, lockVars, idleVars>>

\* handleSandboxes, lines 149-160: claimWarmNamespace has returned
createClaimed(r) ==
    /\ creq[r].pc = "claim"
    /\ cl[r].pc = "done"
    /\ LET outcome == handlerOutcome(cl[r].ret)
           rec == creq[r]
       IN  creq' = [creq EXCEPT ![r] =
                IF outcome = "warm"
                THEN [rec EXCEPT !.pc = "get", !.stage = "namespace", !.warmClaimed = TRUE,
                                 !.ns = warmNamespaceName(cl[r].ret.name)]
                ELSE IF outcome = "http500" THEN [rec EXCEPT !.pc = "done", !.code = 500]
                ELSE [rec EXCEPT !.pc = "get", !.stage = "namespace",
                                 !.ns = sandboxNamespace(rec.id)]]
    /\ cl' = [cl EXCEPT ![r] = IdleClaimer]
    /\ UNCHANGED <<kube, metrics, namespaces, pods, recon, wins, regVars, hubVars,
                   execVars, sizeVars, poolVars, sbxVars, streamVars,
                   lockVars, idleVars>>

\* the Get of an ensure function: found, the function returns nil (the
\* namespace's labels and annotations have nothing to merge)
ensureGet(r) ==
    /\ creq[r].pc = "get"
    /\ creq' = [creq EXCEPT ![r] =
                  IF hasObject(creq[r].stage, creq[r].ns) THEN advance(creq[r])
                  ELSE [creq[r] EXCEPT !.pc = "create"]]
    /\ UNCHANGED <<kube, metrics, regVars, warmVars, hubVars, execVars, sizeVars,
                   poolVars, sbxVars, streamVars, lockVars, idleVars>>

\* the Create of an ensure function, after a Get that found nothing
ensureCreate(r) ==
    /\ creq[r].pc = "create"
    /\ LET rec == creq[r]
           err == IF hasObject(rec.stage, rec.ns) THEN onAlreadyExists(rec.stage)
                  ELSE "nil"
       IN  /\ kube' = withObject(rec.stage, rec.ns)
           /\ creq' = [creq EXCEPT ![r] =
                         IF err = "nil" THEN advance(rec)
                         ELSE [rec EXCEPT !.pc = "done", !.stage = "", !.code = 500]]
    /\ UNCHANGED <<metrics, regVars, warmVars, hubVars, execVars, sizeVars, poolVars,
                   sbxVars, streamVars, lockVars, idleVars>>

\* handleSandboxes, lines 200-212: the counters, recordCreate and the answer
createRespond(r) ==
    /\ creq[r].pc = "respond"
    /\ creq' = [creq EXCEPT ![r] = [creq[r] EXCEPT !.pc = "done", !.code = 200]]
    /\ metrics' = [metrics EXCEPT
                     !.creates = @ + 1,
                     !.warmHit = IF creq[r].warmClaimed THEN @ + 1 ELSE @,
                     !.cold = IF creq[r].warmClaimed THEN @ ELSE @ + 1]
    /\ IF enabled(wcfg) /\ Cfg.autosize
       THEN /\ recent' = pruneLocked(Append(recent, now), now)
            /\ creates' = Append(creates, now)
       ELSE UNCHANGED <<recent, creates>>
    /\ lastSize' = IF enabled(wcfg) THEN LastSize("recordCreate", 0) ELSE lastSize
    /\ UNCHANGED <<kube, wcfg, regVars, warmVars, hubVars, execVars, poolVars, sbxVars,
                   streamVars, lockVars, idleVars>>

InitCreate ==
    /\ creq = [r \in Claimers |-> IdleCreate]
    /\ kube = [namespace |-> {}, pvc |-> {}, pod |-> {}]
    /\ metrics = [creates |-> 0, warmHit |-> 0, cold |-> 0]

(***************************************************************************)
(* Async execs in the namespaces the sandbox idle reaper lists             *)
(***************************************************************************)
NoSbxRun == [pc |-> "none", endedAt |-> 0]

\* execSandbox, lines 241-250: an async exec is dispatched in the sandbox; the
\* handler answers without touching the namespace
asyncExecStarts(name) ==
    /\ name \in DOMAIN cluster
    /\ HasPrefix(name, SbxPrefix)
    /\ sbxRuns[name].pc # "running"
    /\ sbxRuns' = [sbxRuns EXCEPT ![name] = [pc |-> "running", endedAt |-> 0]]
    /\ UNCHANGED <<sbxVars, regVars, warmVars, hubVars, execVars, sizeVars, poolVars,
                   createVars, streamVars, lockVars>>

\* execCommandStream, lines 530-535: the remote exec call returns and
\* updateLastExec (lines 461-472) sets the annotation sbx.last_exec_at, unless
\* the namespace is gone
asyncExecEnds(name) ==
    /\ sbxRuns[name].pc = "running"
    /\ sbxRuns' = [sbxRuns EXCEPT ![name] = [pc |-> "done", endedAt |-> now]]
    /\ cluster' = IF name \in DOMAIN cluster
                  THEN [cluster EXCEPT ![name].lastExecAt = {now}]
                  ELSE cluster
    /\ UNCHANGED <<sreaper, regVars, warmVars, hubVars, execVars, sizeVars, poolVars,
                   createVars, streamVars, lockVars>>

InitIdle ==
    sbxRuns = [name \in ClusterNames |-> NoSbxRun]

(***************************************************************************)
(* The warm pool's namespaces, as the sandbox idle reaper lists them       *)
(***************************************************************************)
\* defaultWarmControlNamespace, line 18
WarmControlNamespace ==
    SbxPrefix \o <<"w", "a", "r", "m", "-", "c", "o", "n", "t", "r", "o", "l">>

\* ensureWarmNamespaces, lines 258-269: the namespace object created, with
\* labels sbx.pool and sbx.state, no label sbx.allocated and the annotation
\* sbx.last_exec_at "0"
WarmClusterNs(n, t) ==
    [name |-> warmNamespaceName(n), allocated |-> {}, lastExecAt |-> {0},
     created |-> t, pool |-> "warm", state |-> "creating"]

\* warmPool.ensureNamespace, lines 175-184: the control namespace, made with a
\* name and nothing else
warmControlAppears ==
    /\ WarmControlNamespace \notin DOMAIN cluster
    /\ cluster' = [x \in DOMAIN cluster \cup {WarmControlNamespace} |->
                      IF x = WarmControlNamespace
                      THEN ClusterNs(WarmControlNamespace, {}, {}, now)
                      ELSE cluster[x]]
    /\ UNCHANGED <<sreaper, regVars, warmVars, hubVars, execVars, sizeVars, poolVars,
                   createVars, streamVars, lockVars, idleVars>>

\* ensureWarmNamespaces, lines 256-270: the warm namespace sbx-warm-n is created
warmAppears(n) ==
    /\ WarmControlNamespace \in DOMAIN cluster
    /\ warmNamespaceName(n) \notin DOMAIN cluster
    /\ cluster' = [x \in DOMAIN cluster \cup {warmNamespaceName(n)} |->
                      IF x = warmNamespaceName(n) THEN WarmClusterNs(n, now)
                      ELSE cluster[x]]
    /\ UNCHANGED <<sreaper, regVars, warmVars, hubVars, execVars, sizeVars, poolVars,
                   createVars, streamVars, lockVars, idleVars>>

\* ensureWarmNamespaces, lines 241-252: its pod being ready, the namespace is
\* labelled ready
warmPromoted(n) ==
    /\ warmNamespaceName(n) \in DOMAIN cluster
    /\ cluster[warmNamespaceName(n)].state = "creating"
    /\ cluster' = [cluster EXCEPT ![warmNamespaceName(n)].state = "ready"]
    /\ UNCHANGED <<sreaper, regVars, warmVars, hubVars, execVars, sizeVars, poolVars,
                   createVars, streamVars, lockVars, idleVars>>

(***************************************************************************)
(* Stream hub                                                              *)
(***************************************************************************)
execEvent(sb, ex, seq, type) ==
    [SandboxID |-> sb, ExecID |-> ex, Seq |-> seq, Type |-> type]

\* bufferFor: the sandbox's buffer, created empty on first use
bufferFor(bufs, sb) ==
    IF sb \in DOMAIN bufs THEN bufs
    ELSE [x \in DOMAIN bufs \cup {sb} |->
             IF x = sb THEN [events |-> <<>>, subs |-> {}] ELSE bufs[x]]

\* publish, lines 72-77: the ring after evt is added
ringAppend_KeepOldest(events, evt) ==
    IF Len(events) >= Limit
    THEN [events EXCEPT ![Len(events)] = evt]
    ELSE Append(events, evt)

ringAppend(events, evt) ==
    IF Len(events) >= Limit
    THEN Tail(events) \o <<evt>>
    ELSE Append(events, evt)

\* publish, lines 78-83: the non-blocking send to every registered channel
\* (select with a default branch: a channel without room is skipped)
deliver_StopAtFull(chs, subs, evt) ==
    [u \in DOMAIN chs |->
        IF u \in subs /\ \A v \in subs : Len(chs[v].queue) < ChanCap
        THEN [chs[u] EXCEPT !.queue = Append(chs[u].queue, evt)]
        ELSE chs[u]]

deliver(chs, subs, evt) ==
    [u \in DOMAIN chs |->
        IF u \in subs /\ Len(chs[u].queue) < ChanCap
        THEN [chs[u] EXCEPT !.queue = Append(chs[u].queue, evt)]
        ELSE chs[u]]

\* lastHub: the hub operation just performed, the sandbox and the stream
\* connection or publisher it was performed for
LastHubOp(op, sb, who) == [op |-> op, sb |-> sb, who |-> who]

IdlePub == [pc |-> "idle", evt |-> execEvent("", "", 0, "")]

\* the caller of publish builds the event: Seq: s.stream.nextSeq()
nextSeq_NoIncrement(p, sb, type) ==
    /\ pubs[p].pc = "idle"
    /\ hubSeq < MaxSeq
    /\ hubSeq' = hubSeq
    /\ pubs' = [pubs EXCEPT ![p] = [pc |-> "stamped",
                                    evt |-> execEvent(sb, p, hubSeq + 1, type)]]
    /\ lastHub' = LastHubOp("nextSeq", sb, p)
    /\ UNCHANGED <<buffers, chans, subscr, published, regVars, warmVars, execVars,
                   sizeVars, poolVars, sbxVars, createVars, streamVars,
                   lockVars, idleVars>>

nextSeq(p, sb, type) ==
    /\ pubs[p].pc = "idle"
    /\ hubSeq < MaxSeq
    /\ hubSeq' = hubSeq + 1
    /\ pubs' = [pubs EXCEPT ![p] = [pc |-> "stamped",
                                    evt |-> execEvent(sb, p, hubSeq + 1, type)]]
    /\ lastHub' = LastHubOp("nextSeq", sb, p)
    /\ UNCHANGED <<buffers, chans, subscr, published, regVars, warmVars, execVars,
                   sizeVars, poolVars, sbxVars, createVars, streamVars,
                   lockVars, idleVars>>

\* publish, lines 70-84, for the event evt: the ring and the channels under
\* the buffer's mutex
publishEvent(evt) ==
    LET bufs == bufferFor(buffers, evt.SandboxID)
        buf == bufs[evt.SandboxID]
    IN  /\ buffers' = [bufs EXCEPT ![evt.SandboxID].events = ringAppend(buf.events, evt)]
        /\ chans' = deliver(chans, buf.subs, evt)
        /\ published' = [published EXCEPT ![evt.SandboxID] = Append(@, evt)]

publish(p) ==
    /\ pubs[p].pc = "stamped"
    /\ publishEvent(pubs[p].evt)
    /\ pubs' = [pubs EXCEPT ![p] = IdlePub]
    /\ lastHub' = LastHubOp("publish", pubs[p].evt.SandboxID, p)
    /\ UNCHANGED <<hubSeq, subscr, regVars, warmVars, execVars, sizeVars, poolVars,
                   sbxVars, createVars, streamVars, lockVars, idleVars>>

IdleSub == [pc |-> "idle", sandbox |-> "", snapshot |-> <<>>]

\* a subscriber's channel: its buffered events, whether it is open, and the
\* sandbox it was made for ("" before the connection's first subscribe)
NoChan == [queue |-> <<>>, open |-> FALSE, sandbox |-> ""]

\* subscribe: a new channel, registered, with a copy of the ring
subscribe_SnapshotOnly(u, sb) ==
    /\ subscr[u].pc = "idle"
    /\ LET bufs == bufferFor(buffers, sb) IN
       /\ buffers' = bufs
       /\ subscr' = [subscr EXCEPT ![u] = [pc |-> "streaming", sandbox |-> sb,
                                           snapshot |-> bufs[sb].events]]
    /\ chans' = [chans EXCEPT ![u] = [queue |-> <<>>, open |-> TRUE, sandbox |-> sb]]
    /\ lastHub' = LastHubOp("subscribe", sb, u)
    /\ UNCHANGED <<hubSeq, pubs, published, regVars, warmVars, execVars, sizeVars,
                   poolVars, sbxVars, createVars, streamVars, lockVars,
                   idleVars>>

\* the channel registered before the ring is copied, and the ring's last event
\* published in between
subscribe_RegisterThenCopy(u, sb) ==
    /\ subscr[u].pc = "idle"
    /\ LET bufs == bufferFor(buffers, sb)
           ring == bufs[sb].events
       IN
       /\ buffers' = [bufs EXCEPT ![sb].subs = @ \cup {u}]
       /\ subscr' = [subscr EXCEPT ![u] = [pc |-> "streaming", sandbox |-> sb,
                                           snapshot |-> ring]]
       /\ chans' = [chans EXCEPT ![u] =
                       [queue |-> IF ring = <<>> THEN <<>> ELSE <<ring[Len(ring)]>>,
                        open |-> TRUE, sandbox |-> sb]]
    /\ lastHub' = LastHubOp("subscribe", sb, u)
    /\ UNCHANGED <<hubSeq, pubs, published, regVars, warmVars, execVars, sizeVars,
                   poolVars, sbxVars, createVars, streamVars, lockVars,
                   idleVars>>

subscribe(u, sb) ==
    /\ subscr[u].pc = "idle"
    /\ LET bufs == bufferFor(buffers, sb) IN
       /\ buffers' = [bufs EXCEPT ![sb].subs = @ \cup {u}]
       /\ subscr' = [subscr EXCEPT ![u] = [pc |-> "streaming", sandbox |-> sb,
                                           snapshot |-> bufs[sb].events]]
    /\ chans' = [chans EXCEPT ![u] = [queue |-> <<>>, open |-> TRUE, sandbox |-> sb]]
    /\ lastHub' = LastHubOp("subscribe", sb, u)
    /\ UNCHANGED <<hubSeq, pubs, published, regVars, warmVars, execVars, sizeVars,
                   poolVars, sbxVars, createVars, streamVars, lockVars,
                   idleVars>>

\* streamSandbox, line 562: the connection takes the next event off its channel
receive(u) ==
    /\ subscr[u].pc = "streaming"
    /\ chans[u].queue # <<>>
    /\ chans' = [chans EXCEPT ![u].queue = Tail(@)]
    /\ lastHub' = LastHubOp("receive", subscr[u].sandbox, u)
    /\ UNCHANGED <<hubSeq, buffers, pubs, subscr, published, regVars, warmVars, execVars,
                   sizeVars, poolVars, sbxVars, createVars, streamVars,
                   lockVars, idleVars>>

\* unsubscribe (deferred in streamSandbox): remove the channel and close it;
\* the connection is over and nobody reads what the channel still held
unsubscribe_CloseOnly(u) ==
    /\ subscr[u].pc = "streaming"
    /\ buffers' = bufferFor(buffers, subscr[u].sandbox)
    /\ chans' = [chans EXCEPT ![u] = [@ EXCEPT !.queue = <<>>, !.open = FALSE]]
    /\ subscr' = [subscr EXCEPT ![u] = IdleSub]
    /\ lastHub' = LastHubOp("unsubscribe", subscr[u].sandbox, u)
    /\ UNCHANGED <<hubSeq, pubs, published, regVars, warmVars, execVars, sizeVars,
                   poolVars, sbxVars, createVars, streamVars, lockVars,
                   idleVars>>

unsubscribe(u) ==
    /\ subscr[u].pc = "streaming"
    /\ LET sb == subscr[u].sandbox
           bufs == bufferFor(buffers, sb)
       IN  buffers' = [bufs EXCEPT ![sb].subs = @ \ {u}]
    /\ chans' = [chans EXCEPT ![u] = [@ EXCEPT !.queue = <<>>, !.open = FALSE]]
    /\ subscr' = [subscr EXCEPT ![u] = IdleSub]
    /\ lastHub' = LastHubOp("unsubscribe", subscr[u].sandbox, u)
    /\ UNCHANGED <<hubSeq, pubs, published, regVars, warmVars, execVars, sizeVars,
                   poolVars, sbxVars, createVars, streamVars, lockVars,
                   idleVars>>

\* ingestSandbox, lines 584-594, on connection p of sandbox sb: an event of
\* exec e is read and stamped with the hub's next seq
ingestSeq(p, sb, e) ==
    /\ pubs[p].pc = "idle"
    /\ hubSeq < MaxSeq
    /\ hubSeq' = hubSeq + 1
    /\ pubs' = [pubs EXCEPT ![p] = [pc |-> "stamped",
                                    evt |-> execEvent(sb, e, hubSeq + 1, "output")]]
    /\ lastHub' = LastHubOp("nextSeq", sb, p)
    /\ UNCHANGED <<buffers, chans, subscr, published, regVars, warmVars, execVars,
                   sizeVars, poolVars, sbxVars, createVars, streamVars,
                   lockVars, idleVars>>

\* streamSandbox: the connection's exec_id query parameter ("" when absent),
\* the number of snapshot events gone through, and the events written
IdleStream == [pc |-> "idle", execID |-> "", i |-> 0, out |-> <<>>]

\* streamSandbox, lines 549-551 and 563-565: the filter
passesFilter(execID, evt) == ~(execID # "" /\ evt.ExecID # execID)

\* streamSandbox, lines 552-555 and 566-569: the event written, with the
\* sandbox id of the path
outEvt(evt, id) == IF id # "" THEN [evt EXCEPT !.SandboxID = id] ELSE evt

\* streamSandbox, lines 539-546: the connection is upgraded
streamAccept(u, execID) ==
    /\ sconn[u].pc = "idle"
    /\ sconn' = [sconn EXCEPT ![u] = [IdleStream EXCEPT !.pc = "accepted",
                                                        !.execID = execID]]
    /\ UNCHANGED <<regVars, warmVars, hubVars, execVars, sizeVars, poolVars, sbxVars,
                   createVars, lockVars, idleVars>>

\* streamSandbox, lines 548-560: the next event of the snapshot
streamSnapshot(u) ==
    /\ sconn[u].pc = "accepted"
    /\ subscr[u].pc = "streaming"
    /\ sconn[u].i < Len(subscr[u].snapshot)
    /\ LET evt == subscr[u].snapshot[sconn[u].i + 1] IN
       sconn' = [sconn EXCEPT
                   ![u].i = @ + 1,
                   ![u].out = IF passesFilter(sconn[u].execID, evt)
                              THEN Append(@, outEvt(evt, subscr[u].sandbox)) ELSE @]
    /\ UNCHANGED <<regVars, warmVars, hubVars, execVars, sizeVars, poolVars, sbxVars,
                   createVars, lockVars, idleVars>>

\* streamSandbox, lines 562-573: the snapshot is written; the next event is
\* taken off the channel
streamLive(u) ==
    /\ sconn[u].pc = "accepted"
    /\ subscr[u].pc = "streaming"
    /\ sconn[u].i = Len(subscr[u].snapshot)
    /\ chans[u].queue # <<>>
    /\ chans' = [chans EXCEPT ![u].queue = Tail(@)]
    /\ LET evt == Head(chans[u].queue) IN
       sconn' = [sconn EXCEPT
                   ![u].out = IF passesFilter(sconn[u].execID, evt)
                              THEN Append(@, outEvt(evt, subscr[u].sandbox)) ELSE @]
    /\ lastHub' = LastHubOp("receive", subscr[u].sandbox, u)
    /\ UNCHANGED <<hubSeq, buffers, pubs, subscr, published, regVars, warmVars, execVars,
                   sizeVars, poolVars, sbxVars, createVars, lockVars,
                   idleVars>>

InitStream ==
    sconn = [u \in Subscribers |-> IdleStream]

InitHub ==
    /\ hubSeq = 0
    /\ buffers = <<>>
    /\ chans = [u \in Subscribers |-> NoChan]
    /\ pubs = [p \in Publishers |-> IdlePub]
    /\ subscr = [u \in Subscribers |-> IdleSub]
    /\ published = [sb \in SandboxIDs |-> <<>>]
    /\ lastHub = LastHubOp("init", "", "")

(***************************************************************************)
(* Exec handler (execSandbox), exec runner (execCommandStream), the command *)
(* in the pod, the sidecar forwarder (pump) and the ingest endpoint.       *)
(* All execs go to one sandbox; its namespace is named by its id.          *)
(***************************************************************************)
ExecRequests == {"r1", "r2"}
ExecSandbox == "s1"
\* generateExecID: eight random bytes, a fresh id for every request
ExecIDOf(r) == IF r = "r1" THEN "e1" ELSE "e2"
\* SpecExec follows one request through the handler, the runner, the sidecar
\* and the ingest connection
ExecClients == {"r1"}
ReqOf(e) == CHOOSE r \in ExecRequests : ExecIDOf(r) = e
Streams == {"stdout", "stderr"}

\* api.ExecResponse and the error answers, by status code
NoResponse == [code |-> 0, exec_id |-> "", status |-> ""]
ExecResponse(code, e, status) == [code |-> code, exec_id |-> e, status |-> status]

IdleReq ==
    [pc |-> "idle", ctx |-> "live", waitCtx |-> "live", async |-> FALSE,
     sidecar |-> FALSE, timeout |-> {}, at |-> 0, resp |-> NoResponse]

\* the context handed to the exec call: context.Background(), or the context
\* of request r
Background == [kind |-> "background", req |-> ""]
RequestCtx(r) == [kind |-> "request", req |-> r]

NoRun == [pc |-> "none", mode |-> "none", ctx |-> Background,
          evt |-> execEvent("", "", 0, "")]

\* the remote command: its state, its exit status and the time it ended
NoCmd == [state |-> "none", code |-> 0, endedAt |-> 0]

NoFiles == [exists |-> FALSE, size |-> [st \in Streams |-> 0], exit |-> {}]

\* &execState{}: the zero value (the quiet window is kept as a flag)
ZeroExecState ==
    [startSent |-> FALSE, off |-> [st \in Streams |-> 0], exitSeen |-> FALSE,
     exitCode |-> 0, exitSent |-> FALSE, exitReady |-> FALSE]

\* the context of a request is done once the request is over;
\* context.Background() never is
ctxDone(ctx) == ctx.kind = "request" /\ execReqs[ctx.req].ctx # "live"

\* execSandbox, lines 216-231: the request is bound and validated, and the
\* wait for the pod starts under the request context with the wait deadline.
\* timeout is the timeout_seconds member of the body, which api.ExecRequest
\* does not declare; sidecar is SANDBOX_STREAM_SIDECAR_IMAGE being set.
execBegin(r, async, sidecar, timeout) ==
    /\ execReqs[r].pc = "idle"
    /\ execReqs' = [execReqs EXCEPT ![r] =
                       [IdleReq EXCEPT !.pc = "wait", !.async = async,
                                       !.sidecar = sidecar, !.timeout = timeout]]
    /\ UNCHANGED <<runs, cmd, files, fwd, wire, ing, sandboxPod, nsLastExec, metricExecs,
                   regVars, warmVars, hubVars, sizeVars, poolVars,
                   sbxVars, createVars, streamVars, lockVars, idleVars>>

\* waitForPodReady, lines 438-444: the pod read is in phase Running and its
\* PodReady condition is true
podRunningAndReady_PhaseOnly(pod) == pod \in {"running", "ready"}

podRunningAndReady(pod) == pod = "ready"

\* the context of the exec call: line 245/247 for async, line 254 for sync
dispatchCtx_Request(r, async) == RequestCtx(r)

dispatchCtx(r, async) == IF async THEN Background ELSE RequestCtx(r)

\* execSandbox, lines 232-252: waitForPodReady returns; on an error the answer
\* is 409 and nothing is dispatched; else the exec is dispatched: async as a
\* goroutine, answered at once with the exec id; sync inside the handler.
execWait(r) ==
    /\ execReqs[r].pc = "wait"
    /\ LET e == ExecIDOf(r)
           q == execReqs[r]
       IN  \/ /\ (q.ctx # "live" \/ q.waitCtx # "live")
              /\ execReqs' = [execReqs EXCEPT ![r].pc = "responded",
                                              ![r].resp = ExecResponse(409, "", "")]
              /\ UNCHANGED <<runs, metricExecs>>
           \/ /\ podRunningAndReady(sandboxPod)
              /\ q.ctx = "live" /\ q.waitCtx = "live"
              /\ runs' = [runs EXCEPT ![e] =
                            [NoRun EXCEPT !.pc = "new",
                                          !.mode = IF q.async THEN "async" ELSE "sync",
                                          !.ctx = dispatchCtx(r, q.async)]]
              /\ IF q.async
                 THEN /\ metricExecs' = metricExecs + 1
                      /\ execReqs' = [execReqs EXCEPT
                                         ![r].pc = "responded", ![r].at = now,
                                         ![r].resp = ExecResponse(200, e, "running")]
                 ELSE /\ execReqs' = [execReqs EXCEPT ![r].pc = "sync", ![r].at = now]
                      /\ UNCHANGED metricExecs
    /\ UNCHANGED <<cmd, files, fwd, wire, ing, sandboxPod, nsLastExec,
                   regVars, warmVars, hubVars, sizeVars, poolVars,
                   sbxVars, createVars, streamVars, lockVars, idleVars>>

\* execCommandStream lines 515-530, execCommand lines 487-492: the executor is
\* built; with it the remote command starts (the wrapped command of sidecar
\* mode creates its output files), without it the exec is over
newExecutor(e, ok) ==
    /\ runs[e].pc = "new"
    /\ LET r == ReqOf(e) IN
       IF ok
       THEN /\ runs' = [runs EXCEPT ![e].pc = "stream"]
            /\ cmd' = [cmd EXCEPT ![e] = [state |-> "running", code |-> 0, endedAt |-> 0]]
            /\ files' = IF runs[e].mode = "async" /\ execReqs[r].sidecar
                        THEN [files EXCEPT ![e].exists = TRUE]
                        ELSE files
            /\ UNCHANGED execReqs
       ELSE /\ UNCHANGED <<cmd, files>>
            /\ IF runs[e].mode = "async"
               THEN /\ runs' = [runs EXCEPT ![e].pc = "errSeq"]
                    /\ UNCHANGED execReqs
               ELSE /\ runs' = [runs EXCEPT ![e].pc = "done"]
                    /\ execReqs' = [execReqs EXCEPT ![r].pc = "responded",
                                                    ![r].resp = ExecResponse(500, "", "")]
    /\ UNCHANGED <<fwd, wire, ing, sandboxPod, nsLastExec, metricExecs,
                   regVars, warmVars, hubVars, sizeVars, poolVars,
                   sbxVars, createVars, streamVars, lockVars, idleVars>>

\* execCommandStream, line 520: Seq: s.stream.nextSeq() of the exit event
errSeq(e) ==
    /\ runs[e].pc = "errSeq"
    /\ hubSeq < MaxSeq
    /\ hubSeq' = hubSeq + 1
    /\ runs' = [runs EXCEPT ![e].pc = "errPub",
                            ![e].evt = execEvent(ExecSandbox, e, hubSeq + 1, "exit")]
    /\ lastHub' = LastHubOp("nextSeq", ExecSandbox, e)
    /\ UNCHANGED <<buffers, chans, pubs, subscr, published, execReqs, cmd, files, fwd,
                   wire, ing, sandboxPod, nsLastExec, metricExecs, regVars, warmVars,
                   sizeVars, poolVars, sbxVars, createVars, streamVars,
                   lockVars, idleVars>>

\* execCommandStream, lines 517-527: the exit event is published, the runner returns
errPublish(e) ==
    /\ runs[e].pc = "errPub"
    /\ publishEvent(runs[e].evt)
    /\ runs' = [runs EXCEPT ![e].pc = "done"]
    /\ lastHub' = LastHubOp("publish", ExecSandbox, e)
    /\ UNCHANGED <<hubSeq, pubs, subscr, execReqs, cmd, files, fwd, wire, ing,
                   sandboxPod, nsLastExec, metricExecs, regVars, warmVars,
                   sizeVars, poolVars, sbxVars, createVars, streamVars,
                   lockVars, idleVars>>

\* StreamWithContext returns: the command has ended (byExit), or the context
\* of the call is done and the call is abandoned.  The async runner drops the
\* error (line 534); the sync handler answers 500 on any error (lines 255-258).
streamReturn(e, byExit) ==
    /\ runs[e].pc = "stream"
    /\ IF byExit THEN cmd[e].state = "exited" ELSE ctxDone(runs[e].ctx)
    /\ cmd' = IF cmd[e].state = "running"
              THEN [cmd EXCEPT ![e].state = "aborted", ![e].endedAt = now] ELSE cmd
    /\ LET r == ReqOf(e)
           failed == ~byExit \/ cmd[e].code # 0
       IN  IF runs[e].mode = "sync" /\ failed
           THEN /\ runs' = [runs EXCEPT ![e].pc = "done"]
                /\ execReqs' = [execReqs EXCEPT ![r].pc = "responded",
                                                ![r].resp = ExecResponse(500, "", "")]
           ELSE /\ runs' = [runs EXCEPT ![e].pc = "update"]
                /\ UNCHANGED execReqs
    /\ UNCHANGED <<files, fwd, wire, ing, sandboxPod, nsLastExec, metricExecs,
                   regVars, warmVars, hubVars, sizeVars, poolVars,
                   sbxVars, createVars, streamVars, lockVars, idleVars>>

\* updateLastExec, lines 461-472, as called on line 535 (background context)
\* and on line 259 (request context: a finished request's Get fails and the
\* error is dropped), and the sync answer of lines 260-261
updateLastExec(e) ==
    /\ runs[e].pc = "update"
    /\ runs' = [runs EXCEPT ![e].pc = "done"]
    /\ LET r == ReqOf(e) IN
       IF runs[e].mode = "async"
       THEN /\ nsLastExec' = now
            /\ UNCHANGED <<execReqs, metricExecs>>
       ELSE /\ nsLastExec' = IF ctxDone(runs[e].ctx) THEN nsLastExec ELSE now
            /\ metricExecs' = metricExecs + 1
            /\ execReqs' = [execReqs EXCEPT ![r].pc = "responded",
                                            ![r].resp = ExecResponse(200, "", "completed")]
    /\ UNCHANGED <<cmd, files, fwd, wire, ing, sandboxPod,
                   regVars, warmVars, hubVars, sizeVars, poolVars,
                   sbxVars, createVars, streamVars, lockVars, idleVars>>

\* the client goes away or the handler has returned: the request context is
\* canceled; the wait deadline (defaultWaitReady) passes
requestDone(r) ==
    /\ execReqs[r].pc # "idle"
    /\ execReqs[r].ctx = "live"
    /\ execReqs' = [execReqs EXCEPT ![r].ctx = "canceled", ![r].waitCtx = "canceled"]
    /\ UNCHANGED <<runs, cmd, files, fwd, wire, ing, sandboxPod, nsLastExec, metricExecs,
                   regVars, warmVars, hubVars, sizeVars, poolVars,
                   sbxVars, createVars, streamVars, lockVars, idleVars>>

waitDeadline(r) ==
    /\ execReqs[r].pc = "wait"
    /\ execReqs[r].waitCtx = "live"
    /\ execReqs' = [execReqs EXCEPT ![r].waitCtx = "deadline"]
    /\ UNCHANGED <<runs, cmd, files, fwd, wire, ing, sandboxPod, nsLastExec, metricExecs,
                   regVars, warmVars, hubVars, sizeVars, poolVars,
                   sbxVars, createVars, streamVars, lockVars, idleVars>>

\* the kubelet reports the sandbox pod Running, and later ready
sandboxPodReady ==
    /\ sandboxPod # "ready"
    /\ sandboxPod' = IF sandboxPod = "pending" THEN "running" ELSE "ready"
    /\ UNCHANGED <<execReqs, runs, cmd, files, fwd, wire, ing, nsLastExec, metricExecs,
                   regVars, warmVars, hubVars, sizeVars, poolVars,
                   sbxVars, createVars, streamVars, lockVars, idleVars>>

\* the command writes a byte to one of its output streams; in sidecar mode
\* the stream is redirected to the exec's file (wrapCommandForSidecar)
cmdWrites(e, st) ==
    /\ cmd[e].state = "running"
    /\ files[e].exists
    /\ files[e].size[st] < MaxOut
    /\ files' = [files EXCEPT ![e].size[st] = @ + 1]
    /\ UNCHANGED <<execReqs, runs, cmd, fwd, wire, ing, sandboxPod, nsLastExec,
                   metricExecs, regVars, warmVars, hubVars, sizeVars,
                   poolVars, sbxVars, createVars, streamVars, lockVars,
                   idleVars>>

\* the command ends with an exit status; the wrapper writes it to <id>.exit
cmdExits(e, code) ==
    /\ cmd[e].state = "running"
    /\ cmd' = [cmd EXCEPT ![e] = [state |-> "exited", code |-> code, endedAt |-> now]]
    /\ files' = IF files[e].exists THEN [files EXCEPT ![e].exit = {code}] ELSE files
    /\ UNCHANGED <<execReqs, runs, fwd, wire, ing, sandboxPod, nsLastExec, metricExecs,
                   regVars, warmVars, hubVars, sizeVars, poolVars,
                   sbxVars, createVars, streamVars, lockVars, idleVars>>

\* A text frame on the ingest connection: bytes that are no JSON event, or
\* the JSON form of an execEvent with the fields its sender has set
Message(malformed, sb, e, seq, type) ==
    [malformed |-> malformed, SandboxID |-> sb, ExecID |-> e, Seq |-> seq, Type |-> type]

\* A frame of the sidecar: its execEvent has no sandbox id and no seq
Frame(e, type) == Message(FALSE, "", e, 0, type)

\* hasPendingOutput: a file has grown past the offset sent
hasPendingOutput_StdoutOnly(e) == files[e].size["stdout"] > fwd[e].off["stdout"]

hasPendingOutput(e) == \E st \in Streams : files[e].size[st] > fwd[e].off[st]

\* pump, lines 93-104: the first time a file of the exec is seen, start is sent
fwdStart(e) ==
    /\ files[e].exists
    /\ ~fwd[e].startSent
    /\ ing.pc # "closed"
    /\ Len(wire) < WireCap
    /\ wire' = Append(wire, Frame(e, "start"))
    /\ fwd' = [fwd EXCEPT ![e].startSent = TRUE]
    /\ UNCHANGED <<execReqs, runs, cmd, files, ing, sandboxPod, nsLastExec, metricExecs,
                   regVars, warmVars, hubVars, sizeVars, poolVars,
                   sbxVars, createVars, streamVars, lockVars, idleVars>>

\* pump, lines 108-145: the bytes appended since the last offset are sent
fwdOutput(e, st) ==
    /\ files[e].exists
    /\ fwd[e].startSent
    /\ files[e].size[st] > fwd[e].off[st]
    /\ ing.pc # "closed"
    /\ Len(wire) < WireCap
    /\ wire' = Append(wire, Frame(e, "output"))
    /\ fwd' = [fwd EXCEPT ![e].off[st] = files[e].size[st]]
    /\ UNCHANGED <<execReqs, runs, cmd, files, ing, sandboxPod, nsLastExec, metricExecs,
                   regVars, warmVars, hubVars, sizeVars, poolVars,
                   sbxVars, createVars, streamVars, lockVars, idleVars>>

\* pump, lines 146-162: the exit file is read
fwdSeeExit(e) ==
    /\ files[e].exists
    /\ fwd[e].startSent
    /\ files[e].exit # {}
    /\ ~fwd[e].exitSent
    /\ fwd' = [fwd EXCEPT ![e].exitSeen = TRUE,
                          ![e].exitCode = CHOOSE c \in files[e].exit : TRUE]
    /\ fwd' # fwd
    /\ UNCHANGED <<execReqs, runs, cmd, files, wire, ing, sandboxPod, nsLastExec,
                   metricExecs, regVars, warmVars, hubVars, sizeVars,
                   poolVars, sbxVars, createVars, streamVars, lockVars,
                   idleVars>>

\* pump, lines 165-183: pending output resets the quiet window, the first
\* pass without any starts it
fwdQuiet(e) ==
    /\ fwd[e].exitSeen
    /\ ~fwd[e].exitSent
    /\ fwd[e].exitReady = hasPendingOutput(e)
    /\ fwd' = [fwd EXCEPT ![e].exitReady = ~hasPendingOutput(e)]
    /\ UNCHANGED <<execReqs, runs, cmd, files, wire, ing, sandboxPod, nsLastExec,
                   metricExecs, regVars, warmVars, hubVars, sizeVars,
                   poolVars, sbxVars, createVars, streamVars, lockVars,
                   idleVars>>

\* pump, lines 165-193: a later pass, the window over and nothing pending
fwdExit(e) ==
    /\ fwd[e].exitSeen
    /\ ~fwd[e].exitSent
    /\ ~hasPendingOutput(e)
    /\ fwd[e].exitReady
    /\ ing.pc # "closed"
    /\ Len(wire) < WireCap
    /\ wire' = Append(wire, Frame(e, "exit"))
    /\ fwd' = [fwd EXCEPT ![e].exitSent = TRUE]
    /\ UNCHANGED <<execReqs, runs, cmd, files, ing, sandboxPod, nsLastExec, metricExecs,
                   regVars, warmVars, hubVars, sizeVars, poolVars,
                   sbxVars, createVars, streamVars, lockVars, idleVars>>

\* the ingest handler: msg is the frame it has read; dropped records that it
\* has passed over a frame
NoMessage == Message(FALSE, "", "", 0, "")
IdleIngest ==
    [pc |-> "read", msg |-> NoMessage, evt |-> execEvent("", "", 0, ""),
     dropped |-> FALSE, redialed |-> FALSE]

\* json.Unmarshal(msg, &evt), line 590
unmarshal(msg) ==
    [ok |-> ~msg.malformed,
     evt |-> IF msg.malformed THEN execEvent("", "", 0, "")
             ELSE execEvent(msg.SandboxID, msg.ExecID, msg.Seq, msg.Type)]

\* ingestSandbox, lines 593-594: evt.SandboxID = ns; evt.Seq = s.stream.nextSeq()
stampEvent_KeepClientSeq(evt, ns, seq) ==
    [evt EXCEPT !.SandboxID = ns, !.Seq = IF evt.Seq # 0 THEN evt.Seq ELSE seq]

stampEvent(evt, ns, seq) == [evt EXCEPT !.SandboxID = ns, !.Seq = seq]

\* ingestSandbox, lines 585-594: a frame is read and parsed; one that does
\* not parse is passed over, else the sandbox id is set to the connection's
\* and the seq taken from the hub
ingestStamp ==
    /\ ing.pc = "read"
    /\ wire # <<>>
    /\ wire' = Tail(wire)
    /\ LET parsed == unmarshal(Head(wire)) IN
       IF parsed.ok
       THEN /\ hubSeq < MaxSeq
            /\ hubSeq' = hubSeq + 1
            /\ ing' = [ing EXCEPT !.pc = "stamped", !.msg = Head(wire),
                          !.evt = stampEvent(parsed.evt, ExecSandbox, hubSeq + 1)]
            /\ lastHub' = LastHubOp("nextSeq", ExecSandbox, "ingest")
       ELSE /\ hubSeq' = hubSeq
            /\ ing' = [ing EXCEPT !.dropped = TRUE]
            /\ lastHub' = LastHubOp("continue", ExecSandbox, "ingest")
    /\ UNCHANGED <<buffers, chans, pubs, subscr, published, execReqs, runs, cmd, files,
                   fwd, sandboxPod, nsLastExec, metricExecs, regVars, warmVars,
                   sizeVars, poolVars, sbxVars, createVars, streamVars,
                   lockVars, idleVars>>

\* ingestSandbox, line 598
ingestPublish ==
    /\ ing.pc = "stamped"
    /\ publishEvent(ing.evt)
    /\ ing' = [IdleIngest EXCEPT !.dropped = ing.dropped, !.redialed = ing.redialed]
    /\ lastHub' = LastHubOp("publish", ExecSandbox, "ingest")
    /\ UNCHANGED <<hubSeq, pubs, subscr, execReqs, runs, cmd, files, fwd, wire,
                   sandboxPod, nsLastExec, metricExecs, regVars, warmVars,
                   sizeVars, poolVars, sbxVars, createVars, streamVars,
                   lockVars, idleVars>>

\* ingestSandbox, lines 585-588: ReadMessage fails (the peer has closed) and
\* the handler returns
ingestReadError ==
    /\ ing.pc = "read"
    /\ wire = <<>>
    /\ ing' = [ing EXCEPT !.pc = "closed"]
    /\ UNCHANGED <<wire, execReqs, runs, cmd, files, fwd, sandboxPod, nsLastExec,
                   metricExecs, regVars, warmVars, hubVars, sizeVars, poolVars,
                   sbxVars, createVars, streamVars, lockVars, idleVars>>

\* wrapCommandForSidecar, lines 752-769: the wrapped command starts in the
\* pod; its redirections create the two output files of the exec
wrappedCommandStarts(e) ==
    /\ cmd[e].state = "none"
    /\ cmd' = [cmd EXCEPT ![e] = [state |-> "running", code |-> 0, endedAt |-> 0]]
    /\ files' = [files EXCEPT ![e].exists = TRUE]
    /\ UNCHANGED <<execReqs, runs, fwd, wire, ing, sandboxPod, nsLastExec, metricExecs,
                   regVars, warmVars, hubVars, sizeVars, poolVars,
                   sbxVars, createVars, streamVars, lockVars, idleVars>>

\* the ingest connection breaks: the frames in flight are lost and the
\* handler's ReadMessage fails (ingestSandbox, lines 585-588)
connBreaks ==
    /\ ing.pc = "read"
    /\ wire' = <<>>
    /\ ing' = [ing EXCEPT !.pc = "closed"]
    /\ UNCHANGED <<execReqs, runs, cmd, files, fwd, sandboxPod, nsLastExec,
                   metricExecs, regVars, warmVars, hubVars, sizeVars, poolVars,
                   sbxVars, createVars, streamVars, lockVars, idleVars>>

\* pump has an event of exec e to send
wantsToSend(e) ==
    /\ files[e].exists
    /\ \/ ~fwd[e].startSent
       \/ hasPendingOutput(e)
       \/ fwd[e].exitSeen /\ ~fwd[e].exitSent /\ fwd[e].exitReady

\* sidecar main, lines 54-70: sendEvent fails on the broken connection, pump
\* returns the error with the exec's state as it was, the connection is
\* closed and a new one is dialled; the state map is kept
fwdSendFails(e) ==
    /\ ing.pc = "closed"
    /\ wantsToSend(e)
    /\ ing' = [IdleIngest EXCEPT !.dropped = ing.dropped, !.redialed = TRUE]
    /\ UNCHANGED <<wire, execReqs, runs, cmd, files, fwd, sandboxPod, nsLastExec,
                   metricExecs, regVars, warmVars, hubVars, sizeVars, poolVars,
                   sbxVars, createVars, streamVars, lockVars, idleVars>>

\* a client of the ingest endpoint sends a frame
clientSends(msg) ==
    /\ ing.pc # "closed"
    /\ Len(wire) < WireCap
    /\ wire' = Append(wire, msg)
    /\ UNCHANGED <<ing, execReqs, runs, cmd, files, fwd, sandboxPod, nsLastExec,
                   metricExecs, regVars, warmVars, hubVars, sizeVars, poolVars,
                   sbxVars, createVars, streamVars, lockVars, idleVars>>

InitExec ==
    /\ execReqs = [r \in ExecRequests |-> IdleReq]
    /\ runs = [e \in ExecIDs |-> NoRun]
    /\ cmd = [e \in ExecIDs |-> NoCmd]
    /\ files = [e \in ExecIDs |-> NoFiles]
    /\ fwd = [e \in ExecIDs |-> ZeroExecState]
    /\ wire = <<>>
    /\ ing = IdleIngest
    /\ sandboxPod = "pending"
    /\ nsLastExec = 0
    /\ metricExecs = 0

CreateRunning == \E k \in RegKeys, to \in Timeouts : createRunning(k[1], k[2], to)
RequestCancel == \E c \in Cancellers, k \in RegLookupKeys : requestCancel(c, k[1], k[2])
InvokeCancel == \E c \in Cancellers : invokeCancel(c)
Finish == \E k \in RegLookupKeys, err \in Errs : finish(k[1], k[2], err)

NextReg ==
    \/ CreateRunning
    \/ RequestCancel
    \/ InvokeCancel
    \/ Finish
    \/ reapExpired
    \/ Tick

Init == InitReg /\ InitWarm /\ InitHub /\ InitExec /\ InitSize /\ InitPool /\ InitSbx
        /\ InitCreate /\ InitStream /\ InitLock /\ InitIdle

SpecReg == Init /\ [][NextReg]_vars

ReapCreate == \E k \in ReapKeys : createRunning(k[1], k[2], {})
\* cancel is requested for the first exec only
ReapCancel == \E c \in Cancellers : requestCancel(c, "s1", "e1")
ReapFinish == \E k \in ReapKeys, err \in {NilErr, DeadlineErr} : finish(k[1], k[2], err)

NextReap ==
    \/ ReapCreate
    \/ ReapCancel
    \/ InvokeCancel
    \/ ReapFinish
    \/ reapExpired
    \/ Tick

SpecReap == Init /\ [][NextReap]_vars

PodBecomesReady == \E n \in WarmNames : podBecomesReady(n)
PodBecomesUnready == \E n \in WarmNames : podBecomesUnready(n)
ClaimList == \E c \in Claimers : claimList(c, ExternalIDOf(c))
ClaimCheck == \E c \in Claimers : claimCheck(c)
ClaimUpdate == \E c \in Claimers : claimUpdate(c)
ClaimReturn == \E c \in Claimers : claimReturn(c)

NextWarm ==
    \/ reconList
    \/ reconPromote
    \/ reconCreate
    \/ PodBecomesReady
    \/ PodBecomesUnready
    \/ ClaimList
    \/ ClaimCheck
    \/ ClaimUpdate
    \/ ClaimReturn

SpecWarm == Init /\ [][NextWarm]_vars

\* SpecLabel: the reconciler, the kubelet (pods become ready and unready) and
\* one create request at a time claiming
LabelClaimList == claimList("a", ExternalIDOf("a"))
LabelClaimCheck == claimCheck("a")
LabelClaimUpdate == claimUpdate("a")
LabelClaimReturn == claimReturn("a")

NextLabel ==
    \/ reconList
    \/ reconPromote
    \/ reconCreate
    \/ PodBecomesReady
    \/ PodBecomesUnready
    \/ LabelClaimList
    \/ LabelClaimCheck
    \/ LabelClaimUpdate
    \/ LabelClaimReturn

SpecLabel == Init /\ [][NextLabel]_vars

NextSeq == \E p \in Publishers, sb \in SandboxIDs : nextSeq(p, sb, "output")
Publish == \E p \in Publishers : publish(p)
Subscribe == \E u \in HubSubscribers, sb \in SandboxIDs : subscribe(u, sb)
Receive == \E u \in HubSubscribers : receive(u)
Unsubscribe == \E u \in HubSubscribers : unsubscribe(u)

NextHub ==
    \/ NextSeq
    \/ Publish
    \/ Subscribe
    \/ Receive
    \/ Unsubscribe

SpecHub == Init /\ [][NextHub]_vars

FanNextSeq == \E p \in FanPublishers : nextSeq(p, FanSandbox, "output")
FanPublish == \E p \in FanPublishers : publish(p)
FanSubscribe == \E u \in Subscribers : subscribe(u, FanSandbox)
FanReceive == \E u \in Subscribers : receive(u)
FanUnsubscribe == \E u \in Subscribers : unsubscribe(u)

NextFan ==
    \/ FanNextSeq
    \/ FanPublish
    \/ FanSubscribe
    \/ FanReceive
    \/ FanUnsubscribe

SpecFan == Init /\ [][NextFan]_vars

ExecBegin ==
    \E r \in ExecClients, async \in BOOLEAN, sidecar \in BOOLEAN, to \in Timeouts :
        execBegin(r, async, sidecar, to)
ExecWait == \E r \in ExecRequests : execWait(r)
NewExecutor == \E e \in ExecIDs, ok \in BOOLEAN : newExecutor(e, ok)
ErrSeq == \E e \in ExecIDs : errSeq(e)
ErrPublish == \E e \in ExecIDs : errPublish(e)
StreamReturn == \E e \in ExecIDs, byExit \in BOOLEAN : streamReturn(e, byExit)
UpdateLastExec == \E e \in ExecIDs : updateLastExec(e)
RequestDone == \E r \in ExecRequests : requestDone(r)
WaitDeadline == \E r \in ExecRequests : waitDeadline(r)
CmdWrites == \E e \in ExecIDs, st \in Streams : cmdWrites(e, st)
CmdExits == \E e \in ExecIDs, code \in ExitCodes : cmdExits(e, code)
FwdStart == \E e \in ExecIDs : fwdStart(e)
FwdOutput == \E e \in ExecIDs, st \in Streams : fwdOutput(e, st)
FwdSeeExit == \E e \in ExecIDs : fwdSeeExit(e)
FwdQuiet == \E e \in ExecIDs : fwdQuiet(e)
FwdExit == \E e \in ExecIDs : fwdExit(e)

\* SpecCancel: two long-running async execs of one sandbox, their cancel
\* requests and the sweep; the caller of cancel() and the runner are scheduled
\* fairly
CancelKeys == {<<"s1", "e1">>, <<"s1", "e2">>}
RunnerDispatch == \E k \in CancelKeys : runnerDispatch(k[1], k[2])
CancelRequest == \E c \in Cancellers, k \in CancelKeys : requestCancel(c, k[1], k[2])
RunnerFinish == \E k \in CancelKeys, err \in CancelReports : runnerFinish(k[1], k[2], err)

NextCancel ==
    \/ RunnerDispatch
    \/ CancelRequest
    \/ InvokeCancel
    \/ RunnerFinish
    \/ reapExpired
    \/ Tick

SpecCancel ==
    Init /\ [][NextCancel]_vars /\ WF_vars(InvokeCancel) /\ WF_vars(RunnerFinish)

\* SpecLock: one exec, two cancel requests, a status request and the runner,
\* each goroutine scheduled fairly; whether a request arrives, and when the
\* command ends, is left open
LockDispatch == \E kind \in HandleKinds : lockDispatch(kind)
LockCancelCall == \E c \in LockCancellers : lockCancelCall(c)
MuLock == \E c \in LockCancellers : muLock(c)
LockCancelBody == \E c \in LockCancellers : lockCancelBody(c)
LockCancelInvoke == \E c \in LockCancellers : lockCancelInvoke(c)
LockHandleFinish == \E c \in LockCancellers : lockFinish(c, CanceledErr, "return")
LockCancelReturn == \E c \in LockCancellers : lockCancelReturn(c)
LockRunnerFinish == \E err \in {NilErr, CanceledErr} : lockFinish("runner", err, "done")

NextLock ==
    \/ LockDispatch
    \/ LockCancelCall
    \/ MuLock
    \/ LockCancelBody
    \/ LockCancelInvoke
    \/ LockHandleFinish
    \/ LockCancelReturn
    \/ lockExecReturns
    \/ LockRunnerFinish
    \/ lockGetCall
    \/ lockGet
    \/ Tick

SpecLock ==
    /\ Init /\ [][NextLock]_vars
    /\ WF_vars(MuLock) /\ WF_vars(LockCancelBody) /\ WF_vars(LockCancelInvoke)
    /\ WF_vars(LockHandleFinish) /\ WF_vars(LockCancelReturn)
    /\ WF_vars(LockRunnerFinish) /\ WF_vars(lockGet)

\* SpecPool: the warm pool goroutine (reconciliation, then the idle reaper),
\* one create request at a time claiming, execs in claimed sandboxes, pods
\* that become ready and stay so.  The goroutine, the kubelet and the handler
\* are scheduled fairly; run calls ensureWarmNamespaces and reapIdle in turn,
\* so each of the two starts again and again (strong fairness).
PoolClaimers == {"a"}
StartOnCluster ==
    \E S \in SUBSET WarmNames : \E found \in [S -> {"ready", "claimed"}] :
        startOnCluster(found)
PoolClaimList == \E c \in PoolClaimers : booted /\ claimList(c, ExternalIDOf(c))
ExecTouches == \E n \in WarmNames : execTouches(n)

NextPool ==
    \/ StartOnCluster
    \/ tickList
    \/ reconPromote
    \/ reconCreate
    \/ reapList
    \/ reapStep
    \/ PodBecomesReady
    \/ PoolClaimList
    \/ ClaimCheck
    \/ ClaimUpdate
    \/ ClaimReturn
    \/ ExecTouches
    \/ Tick

SpecPool ==
    /\ Init /\ [][NextPool]_vars
    /\ WF_vars(StartOnCluster)
    /\ SF_vars(tickList) /\ WF_vars(reconPromote) /\ WF_vars(reconCreate)
    /\ SF_vars(reapList) /\ WF_vars(reapStep)
    /\ WF_vars(PodBecomesReady)
    /\ WF_vars(ClaimCheck) /\ WF_vars(ClaimUpdate) /\ WF_vars(ClaimReturn)

\* SpecRun: the warm pool goroutine alone on the cluster it found, with execs
\* in the claimed sandboxes; no create request claims
NextRun ==
    \/ StartOnCluster
    \/ tickList
    \/ reconPromote
    \/ reconCreate
    \/ reapList
    \/ reapStep
    \/ PodBecomesReady
    \/ ExecTouches
    \/ Tick

SpecRun == Init /\ [][NextRun]_vars

\* SpecSbx: namespaces come, execs run in them, time passes, and the sandbox
\* idle reaper's goroutine is scheduled fairly
NsAppears == \E name \in ClusterNames : \E alloc \in Allocations(name) : nsAppears(name, alloc)
SbxExec == \E name \in ClusterNames : sbxExec(name)

NextSbx ==
    \/ NsAppears
    \/ SbxExec
    \/ sreapList
    \/ sreapStep
    \/ Tick

SpecSbx == Init /\ [][NextSbx]_vars /\ WF_vars(sreapList) /\ WF_vars(sreapStep)

\* SpecSweep: the warm pool makes its control namespace and its warm
\* namespaces, a sandbox is made, time passes, and the sandbox idle reaper runs
WarmAppears == \E n \in 1..PoolSize : warmAppears(n)
WarmPromoted == \E n \in 1..PoolSize : warmPromoted(n)
SweepNsAppears == nsAppears(SandboxA, {})
SweepExec == sbxExec(SandboxA)

NextSweep ==
    \/ warmControlAppears
    \/ WarmAppears
    \/ WarmPromoted
    \/ SweepNsAppears
    \/ SweepExec
    \/ sreapList
    \/ sreapStep
    \/ Tick

SpecSweep == Init /\ [][NextSweep]_vars

\* SpecIdle: a sandbox is made, async execs run in it for as long as they
\* take, time passes, and the sandbox idle reaper runs
IdleNsAppears == nsAppears(SandboxA, {})
AsyncExecStarts == asyncExecStarts(SandboxA)
AsyncExecEnds == asyncExecEnds(SandboxA)

NextIdle ==
    \/ IdleNsAppears
    \/ AsyncExecStarts
    \/ AsyncExecEnds
    \/ sreapList
    \/ sreapStep
    \/ Tick

SpecIdle == Init /\ [][NextIdle]_vars

\* SpecCreate: the control plane starts with one of three warm pool
\* configurations on a cluster with up to two ready warm namespaces, and
\* serves two create requests, which may overlap
CreateEnvs ==
    {[size |-> 0, min |-> 0, max |-> 0, autosize |-> FALSE],
     [size |-> 2, min |-> 0, max |-> 0, autosize |-> FALSE],
     [size |-> 0, min |-> 1, max |-> 2, autosize |-> TRUE]}
CreatePool == \E env \in CreateEnvs : newWarmPool(env)
CreateCluster ==
    \E k \in 0..2 : wcfg # {} /\ startOnCluster([n \in 1..k |-> "ready"])
CreateStart == \E r \in Claimers, req \in CreateRequests : createStart(r, req)
CreateClaimList == \E r \in Claimers : creq[r].pc = "claim" /\ claimList(r, "")
CreateClaimed == \E r \in Claimers : createClaimed(r)
EnsureGet == \E r \in Claimers : ensureGet(r)
EnsureCreate == \E r \in Claimers : ensureCreate(r)
CreateRespond == \E r \in Claimers : createRespond(r)

NextCreate ==
    \/ CreatePool
    \/ CreateCluster
    \/ CreateStart
    \/ CreateClaimList
    \/ ClaimCheck
    \/ ClaimUpdate
    \/ CreateClaimed
    \/ EnsureGet
    \/ EnsureCreate
    \/ CreateRespond

SpecCreate == Init /\ [][NextCreate]_vars

\* SpecSize: one pool, configured from any of the settings, its creates and
\* its sizing queries as time passes
NewWarmPool == \E env \in WarmEnvs : newWarmPool(env)

NextSize ==
    \/ NewWarmPool
    \/ recordCreate
    \/ desiredSizeCall
    \/ Tick

SpecSize == Init /\ [][NextSize]_vars

NextExec ==
    \/ ExecBegin
    \/ ExecWait
    \/ NewExecutor
    \/ ErrSeq
    \/ ErrPublish
    \/ StreamReturn
    \/ UpdateLastExec
    \/ RequestDone
    \/ WaitDeadline
    \/ sandboxPodReady
    \/ CmdWrites
    \/ CmdExits
    \/ FwdStart
    \/ FwdOutput
    \/ FwdSeeExit
    \/ FwdQuiet
    \/ FwdExit
    \/ ingestStamp
    \/ ingestPublish
    \/ Tick

SpecExec == Init /\ [][NextExec]_vars

\* SpecPump: the wrapped commands of two execs run, one of them writing to
\* its streams, both ending with status 0; the sidecar forwards their files
\* over an ingest connection that may break at any time, and the ingest
\* handler publishes what arrives
WrappedCommandStarts == \E e \in ExecIDs : wrappedCommandStarts(e)
PumpWrites == \E st \in Streams : cmdWrites("e1", st)
PumpExits == \E e \in ExecIDs : cmdExits(e, 0)
FwdSendFails == \E e \in ExecIDs : fwdSendFails(e)

NextPump ==
    \/ WrappedCommandStarts
    \/ PumpWrites
    \/ PumpExits
    \/ FwdStart
    \/ FwdOutput
    \/ FwdSeeExit
    \/ FwdQuiet
    \/ FwdExit
    \/ connBreaks
    \/ FwdSendFails
    \/ ingestStamp
    \/ ingestPublish

SpecPump == Init /\ [][NextPump]_vars

\* SpecStream: two ingest connections of one sandbox receive events of two
\* execs; one stream connection, with an exec_id filter or without, reads
StreamSandbox == "s1"
IngestSeq ==
    \E p \in Publishers, e \in ExecIDs : ingestSeq(p, StreamSandbox, e)
StreamAccept == \E u \in HubSubscribers, execID \in ExecIDs \cup {""} : streamAccept(u, execID)
StreamSubscribe ==
    \E u \in HubSubscribers : sconn[u].pc = "accepted" /\ subscribe(u, StreamSandbox)
StreamSnapshot == \E u \in HubSubscribers : streamSnapshot(u)
StreamLive == \E u \in HubSubscribers : streamLive(u)

NextStream ==
    \/ IngestSeq
    \/ Publish
    \/ StreamAccept
    \/ StreamSubscribe
    \/ StreamSnapshot
    \/ StreamLive

SpecStream == Init /\ [][NextStream]_vars

\* SpecIngest: a client of the ingest connection of sandbox ExecSandbox
\* sends frames of its choosing, events and garbage, while another publisher
\* takes seqs from the same hub
ClientMessages ==
    {Message(TRUE, "", "", 0, "")}
    \cup {Message(FALSE, sb, "e1", seq, "output") :
             sb \in SandboxIDs \cup {""}, seq \in {0, 1, MaxSeq}}
ClientSends == \E msg \in ClientMessages : clientSends(msg)

NextIngest ==
    \/ ClientSends
    \/ ingestStamp
    \/ ingestPublish
    \/ ingestReadError
    \/ FanNextSeq
    \/ FanPublish

SpecIngest == Init /\ [][NextIngest]_vars

(***************************************************************************)
(* Properties of the exec registry                                         *)
(***************************************************************************)
TerminalStatuses == {"completed", "failed", "canceled", "timed_out"}
AllKeys == SandboxIDs \X ExecIDs
RecAt(k) == bySandbox[k[1]][k[2]]
LastKey == <<lastReg.sid, lastReg.eid>>

\* C3 (as claimed): once a record has a terminal status, no later finish or
\* requestCancel call changes that status.
C3_TerminalStatusIsFinal ==
    (lastReg.op \in {"finish", "requestCancel"} /\ lastReg.pre \in TerminalStatuses)
        => /\ HasRec(bySandbox, lastReg.sid, lastReg.eid)
           /\ RecAt(LastKey).status = lastReg.pre

\* C4: every record has finished_at set if and only if its status is terminal.
C4_FinishedAtIffTerminal ==
    \A k \in RecKeys(bySandbox) :
        (RecAt(k).finishedAt # {}) <=> (RecAt(k).status \in TerminalStatuses)

C4_Witness ==
    /\ lastReg.op = "finish"
    /\ lastReg.pre \in {"running", "canceling"}
    /\ HasRec(bySandbox, lastReg.sid, lastReg.eid)
    /\ RecAt(LastKey).finishedAt = {now}
    /\ RecAt(LastKey).status \in TerminalStatuses

\* C5: exit_code is set only on terminal records, is 0 on every completed
\* record and 124 on every timed_out record.
C5_ExitCodeByStatus ==
    \A k \in RecKeys(bySandbox) :
        /\ RecAt(k).exitCode # {} => RecAt(k).status \in TerminalStatuses
        /\ RecAt(k).status = "completed" => RecAt(k).exitCode = {0}
        /\ RecAt(k).status = "timed_out" => RecAt(k).exitCode = {124}

C5_Witness ==
    \E k \in RecKeys(bySandbox) :
        /\ RecAt(k).status = "timed_out"
        /\ RecAt(k).exitCode = {124}
        /\ lastReg.op = "finish" /\ lastReg.pre = "failed"

\* The classification table of finish, as specified
TableStatus(err, cr) ==
    CASE err.kind = "nil" -> "completed"
      [] err.kind = "deadline" -> "timed_out"
      [] err.kind = "canceled" -> IF cr THEN "canceled" ELSE "failed"
      [] err.kind = "code" -> IF cr THEN "canceled"
                              ELSE IF err.code = 0 THEN "completed" ELSE "failed"
      [] OTHER -> "failed"

TableExitCode(err, cr) ==
    CASE err.kind = "nil" -> {0}
      [] err.kind = "deadline" -> {124}
      [] err.kind = "code" -> {err.code}
      [] OTHER -> {}

TableHolds(before, err, after) ==
    LET cr == before.cancelRequested
        st == TableStatus(err, cr)
    IN  /\ after.status = st
        /\ after.exitCode = TableExitCode(err, cr)
        /\ st = "canceled" => after.errMsg = ""
        /\ st = "failed" => after.errMsg = err.msg

C8_RequestCancelNoOp ==
    [][( /\ lastReg'.op \in {"requestCancel", "requestCancelLocked"}
         /\ lastReg'.pre \in TerminalStatuses \cup {"none"} )
       => /\ lastReg'.op = "requestCancel"
          /\ bySandbox' = bySandbox
          /\ invoked' = invoked
          /\ canc' = canc
          /\ ~lastReg'.ret.cancel_invoked
          /\ IF lastReg'.pre = "none"
             THEN ~lastReg'.ret.existed
             ELSE LET rec == bySandbox[lastReg'.sid][lastReg'.eid] IN
                  /\ lastReg'.ret.existed
                  /\ lastReg'.ret.snapshot.status = rec.status
                  /\ lastReg'.ret.snapshot.exit_code = rec.exitCode
                  /\ lastReg'.ret.snapshot.error = rec.errMsg
                  /\ lastReg'.ret.snapshot.finished_at # <<>>]_vars

C8_Witness ==
    /\ lastReg.op = "requestCancel"
    /\ lastReg.pre \in TerminalStatuses
    /\ lastReg.ret.existed
    /\ ~lastReg.ret.cancel_invoked
    /\ HasRec(bySandbox, lastReg.sid, lastReg.eid)

\* C9: reapExpired(now) removes exactly the terminal records whose finished_at
\* is more than the retention interval before now, and changes no other record.
C9_ReapRemovesExactlyExpired ==
    [][lastReg'.op = "reapExpired"
       => /\ RecKeys(bySandbox') \subseteq RecKeys(bySandbox)
          /\ \A k \in RecKeys(bySandbox) :
                LET rec == RecAt(k)
                    old == /\ rec.status \in TerminalStatuses
                           /\ \E f \in rec.finishedAt : now - f > Retention
                IN  IF old THEN k \notin RecKeys(bySandbox')
                    ELSE /\ k \in RecKeys(bySandbox')
                         /\ bySandbox'[k[1]][k[2]] = rec]_vars

\* a sweep that removed a record and kept a terminal one of age = retention
\* and a record that is still canceling or running
C9_Witness ==
    /\ lastReg.op = "reapExpired"
    /\ lastReg.removed # {}
    /\ \E k \in RecKeys(bySandbox) :
          \/ RecAt(k).status \in TerminalStatuses /\ RecAt(k).finishedAt = {now - Retention}
          \/ RecAt(k).status \in {"running", "canceling"}

(***************************************************************************)
(* Properties of the warm claim                                            *)
(***************************************************************************)
\* C1: a warm namespace is returned with claimed=true by at most one call of
\* claimWarmNamespace, whatever the interleaving of the claimers.
C1_AtMostOneClaimer ==
    /\ \A n \in WarmNames : wins[n] <= 1
    /\ \A c, d \in Claimers :
          (c # d /\ cl[c].pc = "done" /\ cl[d].pc = "done"
             /\ cl[c].ret.claimed /\ cl[d].ret.claimed)
          => cl[c].ret.name # cl[d].ret.name

\* both claimers listed the same namespace, one got it, the other lost the update
C1_Witness ==
    \E c, d \in Claimers :
        /\ c # d
        /\ cl[c].pc = "done" /\ cl[c].ret.claimed
        /\ cl[d].pc = "done" /\ cl[d].lost = cl[c].ret.name
        /\ wins[cl[c].ret.name] = 1

\* C2 (as claimed): a claimer whose update was rejected with a conflict ends
\* without an error (another namespace, or claimed=false), and its create
\* request is not failed.
C2_LostUpdateIsRecovered ==
    \A c \in Claimers :
        (cl[c].pc = "done" /\ cl[c].lost # 0)
        => cl[c].ret.err = "nil" /\ handlerOutcome(cl[c].ret) # "http500"

(***************************************************************************)
(* Properties of the stream hub                                            *)
(***************************************************************************)
\* the last n elements of a sequence
LastN(seq, n) == SubSeq(seq, Len(seq) - n + 1, Len(seq))

Min(a, b) == IF a < b THEN a ELSE b

\* C10: a sandbox's ring holds at most N events, and they are the last
\* min(N, number published) events published to it, in publish order.
C10_RingIsLastN ==
    \A sb \in DOMAIN buffers :
        /\ Len(buffers[sb].events) <= Limit
        /\ buffers[sb].events = LastN(published[sb], Min(Limit, Len(published[sb])))

\* more than N events were published to one sandbox: the oldest were evicted
C10_Witness ==
    \E sb \in DOMAIN buffers :
        /\ Len(published[sb]) > Limit
        /\ Len(buffers[sb].events) = Limit
        /\ buffers[sb].events[1] # published[sb][1]

\* C11 (as claimed): within one sandbox's ring the seq values are strictly
\* increasing in insertion order, whatever the interleaving of the publishers.
C11_RingSeqIncreasing ==
    \A sb \in DOMAIN buffers :
        \A i, j \in 1..Len(buffers[sb].events) :
            i < j => buffers[sb].events[i].Seq < buffers[sb].events[j].Seq

\* every event that carries a seq: <<seq, where it is>>
StampedPubs == {p \in Publishers : pubs[p].pc = "stamped"}
AssignedSeqs ==
    {pubs[p].evt.Seq : p \in StampedPubs}
        \cup UNION {{published[sb][i].Seq : i \in 1..Len(published[sb])} : sb \in SandboxIDs}
NumberOfEvents ==
    Cardinality(StampedPubs)
        + Len(published["s1"]) + Len(published["s2"])

\* C12: the hub counter never decreases, every seq assigned is greater than
\* all seqs assigned before, no two events share a seq, and a dropped
\* delivery leaves the counter alone.
C12_SeqGlobalMonotonic ==
    [][ /\ hubSeq' >= hubSeq
        /\ \A p \in Publishers :
              (pubs[p].pc = "idle" /\ pubs'[p].pc = "stamped")
                  => /\ pubs'[p].evt.Seq > hubSeq
                     /\ pubs'[p].evt.Seq = hubSeq'
                     /\ \A q \in AssignedSeqs : pubs'[p].evt.Seq > q
        /\ lastHub'.op = "publish" => hubSeq' = hubSeq
        /\ Cardinality(AssignedSeqs') = NumberOfEvents' ]_vars

\* a delivery was dropped for a lagging subscriber (its channel is full and
\* lacks the last event of its sandbox), and a later seq has been assigned
C12_Witness ==
    \E u \in Subscribers, p \in Publishers :
        LET sb == subscr[u].sandbox IN
        /\ subscr[u].pc = "streaming"
        /\ Len(chans[u].queue) = ChanCap
        /\ published[sb] # <<>>
        /\ LET evt == published[sb][Len(published[sb])] IN
           /\ \A i \in 1..Len(chans[u].queue) : chans[u].queue[i].Seq < evt.Seq
           /\ \A i \in 1..Len(subscr[u].snapshot) : subscr[u].snapshot[i].Seq < evt.Seq
           /\ pubs[p].pc = "stamped"
           /\ pubs[p].evt.Seq > evt.Seq
           /\ pubs[p].evt.Seq = hubSeq

\* C13: subscribe returns the ring (the last min(N, published) events) and
\* registers the channel in one step, and every event published to the sandbox
\* while the channel is registered is offered to it: queued when the channel
\* has room, dropped only when it is full.
C13_SubscribeAtomicWithPublish ==
    [][ \A u \in Subscribers :
          /\ (subscr[u].pc = "idle" /\ subscr'[u].pc = "streaming")
                => LET sb == subscr'[u].sandbox IN
                   /\ subscr'[u].snapshot
                          = LastN(published[sb], Min(Limit, Len(published[sb])))
                   /\ sb \in DOMAIN buffers'
                   /\ u \in buffers'[sb].subs
          /\ (subscr[u].pc = "streaming"
                /\ published'[subscr[u].sandbox] # published[subscr[u].sandbox])
                => LET log == published'[subscr[u].sandbox]
                       evt == log[Len(log)]
                   IN  IF Len(chans[u].queue) < ChanCap
                       THEN chans'[u].queue = Append(chans[u].queue, evt)
                       ELSE chans'[u].queue = chans[u].queue ]_vars

\* the subscriber connected after the ring had wrapped: its snapshot is the
\* window, and the event published next is in its channel
C13_Witness ==
    \E u \in Subscribers :
        LET sb == subscr[u].sandbox
            snap == subscr[u].snapshot
        IN  /\ subscr[u].pc = "streaming"
            /\ Len(snap) = Limit
            /\ snap[1] # published[sb][1]
            /\ chans[u].queue # <<>>
            /\ chans[u].queue[1].Seq > snap[Limit].Seq
            /\ chans[u].queue[1] = published[sb][Len(published[sb])]

\* C14: publish completes whatever the state of the channels; the event is
\* appended to the ring, queued on every registered channel with room and
\* dropped only for the channels that are full.
C14_PublishNeverBlocks ==
    [][ \A p \in Publishers :
          pubs[p].pc = "stamped"
            => /\ ENABLED publish(p)
               /\ (lastHub'.op = "publish" /\ lastHub'.who = p)
                    => LET evt == pubs[p].evt
                           sb == evt.SandboxID
                           subs == IF sb \in DOMAIN buffers THEN buffers[sb].subs ELSE {}
                           ring == buffers'[sb].events
                       IN  /\ pubs'[p] = IdlePub
                           /\ ring[Len(ring)] = evt
                           /\ \A u \in Subscribers :
                                 IF u \in subs /\ Len(chans[u].queue) < ChanCap
                                 THEN chans'[u].queue = Append(chans[u].queue, evt)
                                 ELSE chans'[u] = chans[u] ]_vars

\* the last event was dropped for one subscriber, whose channel is full, and
\* queued for the other; it is in the ring
C14_Witness ==
    \E u, v \in Subscribers :
        /\ u # v
        /\ lastHub.op = "publish"
        /\ subscr[u].pc = "streaming" /\ subscr[u].sandbox = lastHub.sb
        /\ subscr[v].pc = "streaming" /\ subscr[v].sandbox = lastHub.sb
        /\ LET log == published[lastHub.sb]
               evt == log[Len(log)]
               ring == buffers[lastHub.sb].events
           IN  /\ Len(chans[u].queue) = ChanCap
               /\ \A i \in 1..Len(chans[u].queue) : chans[u].queue[i] # evt
               /\ chans[v].queue # <<>>
               /\ chans[v].queue[Len(chans[v].queue)] = evt
               /\ ring[Len(ring)] = evt

\* C15: a channel is registered only while it is open (so publish never sends
\* on a closed channel), unsubscribe closes it and removes it in one step, and
\* a closed channel receives nothing.
C15_UnsubscribeAtomicWithPublish ==
    [][ \A u \in Subscribers :
          /\ \A sb \in DOMAIN buffers' : u \in buffers'[sb].subs => chans'[u].open
          /\ (chans[u].open /\ ~chans'[u].open)
                => \A sb \in DOMAIN buffers' : u \notin buffers'[sb].subs
          /\ ~chans'[u].open => chans'[u].queue = <<>> ]_vars

\* an event was published to a sandbox after a stream connection on it had
\* unsubscribed, while another connection was still registered and got it
C15_Witness ==
    \E u, v \in Subscribers :
        /\ u # v
        /\ lastHub.op = "publish"
        /\ chans[u].sandbox = lastHub.sb /\ ~chans[u].open /\ chans[u].queue = <<>>
        /\ subscr[u].pc = "idle"
        /\ v \in buffers[lastHub.sb].subs
        /\ chans[v].queue # <<>>

(***************************************************************************)
(* The events of one exec, as the hub published them                       *)
(***************************************************************************)
AsyncExecs == {e \in ExecIDs : runs[e].mode = "async"}
EventsOf(e) ==
    {i \in 1..Len(published[ExecSandbox]) : published[ExecSandbox][i].ExecID = e}
EventsOfType(e, type) ==
    {i \in EventsOf(e) : published[ExecSandbox][i].Type = type}
SeqAt(i) == published[ExecSandbox][i].Seq

\* C16: the events published for an async exec hold at most one start and at
\* most one exit; whenever an output or an exit event of the exec has been
\* published its start has been published too, with a lower seq; and the exit
\* event has a higher seq than every output event of the exec.
C16_OneStartOneExitInOrder ==
    \A e \in AsyncExecs :
        /\ Cardinality(EventsOfType(e, "start")) <= 1
        /\ Cardinality(EventsOfType(e, "exit")) <= 1
        /\ \A i \in EventsOf(e) :
               SeqAt(i) > 0 /\
               (published[ExecSandbox][i].Type # "start" =>
                   \E j \in EventsOfType(e, "start") : SeqAt(j) < SeqAt(i))
        /\ \A i \in EventsOfType(e, "exit"), j \in EventsOfType(e, "output") :
               SeqAt(j) < SeqAt(i)

\* C17: an async request answered {exec_id, running} has a registry record
\* for that exec id, and once an exit event of the exec is published the
\* record is in a terminal status (finish returned before the event went out).
C17_DispatchRegistersAndFinishes ==
    \A r \in ExecRequests :
        LET e == ExecIDOf(r) IN
        /\ (execReqs[r].resp.code = 200 /\ execReqs[r].resp.status = "running")
               => HasRec(bySandbox, ExecSandbox, e)
        /\ (runs[e].mode = "async" /\ EventsOfType(e, "exit") # {})
               => /\ HasRec(bySandbox, ExecSandbox, e)
                  /\ isTerminalExecStatus(bySandbox[ExecSandbox][e].status)

\* C18: an async exec is never cut short by its request: the context of its
\* exec call is never done, its command is never abandoned while running, and
\* the runner leaves the stream only when the command has ended.
C18_AsyncOutlivesRequest ==
    \A e \in AsyncExecs :
        /\ ~ctxDone(runs[e].ctx)
        /\ cmd[e].state # "aborted"
        /\ cmd[e].state = "running" => runs[e].pc = "stream"

\* the request was answered {exec_id, running}, its context has been canceled
\* since, and the command is still running
C18_Witness ==
    \E r \in ExecRequests :
        /\ execReqs[r].resp = ExecResponse(200, ExecIDOf(r), "running")
        /\ execReqs[r].ctx = "canceled"
        /\ runs[ExecIDOf(r)].mode = "async"
        /\ cmd[ExecIDOf(r)].state = "running"

\* C19: when the runner of an async exec with a timeout is over and the
\* command was still running after the deadline (dispatch time + timeout), the
\* command was stopped rather than left to end by itself, the record is
\* timed_out with exit code 124 and an exit event of the exec is published.
C19_TimeoutStopsExec ==
    \A r \in ExecRequests :
        LET e == ExecIDOf(r)
            q == execReqs[r]
        IN  (/\ q.async /\ q.timeout # {}
             /\ runs[e].mode = "async" /\ runs[e].pc = "done"
             /\ cmd[e].state \in {"exited", "aborted"}
             /\ \A t \in q.timeout : cmd[e].endedAt > q.at + t)
            => /\ cmd[e].state = "aborted"
               /\ HasRec(bySandbox, ExecSandbox, e)
               /\ bySandbox[ExecSandbox][e].status = execStatusTimedOut
               /\ bySandbox[ExecSandbox][e].exitCode = {124}
               /\ EventsOfType(e, "exit") # {}

StatusIs(k, status) == HasRec(bySandbox, k[1], k[2]) /\ RecAt(k).status = status

C21_DispatchOnlyWhenPodReady ==
    \A r \in ExecRequests :
        LET e == ExecIDOf(r)
            q == execReqs[r]
        IN  /\ runs[e].pc # "none" => sandboxPod = "ready"
            /\ (q.pc = "responded" /\ q.waitCtx = "deadline") => q.resp.code = 409
            /\ q.resp.code = 409
                   => /\ runs[e] = NoRun /\ cmd[e] = NoCmd /\ files[e] = NoFiles
                      /\ q.resp.exec_id = "" /\ q.resp.status = ""
                      /\ EventsOf(e) = {}
                      /\ metricExecs = 0

\* the wait deadline passed with the pod Running but not ready, and the
\* request was answered 409
C21_Witness ==
    \E r \in ExecRequests :
        /\ execReqs[r].pc = "responded"
        /\ execReqs[r].waitCtx = "deadline"
        /\ execReqs[r].resp.code = 409
        /\ sandboxPod = "running"

\* the creates recorded within the last warmWindow
RecentCreates == {i \in DOMAIN creates : creates[i] > now - warmWindow}
Clamp(x, lo, hi) == IF x < lo THEN lo ELSE IF x > hi THEN hi ELSE x
Configured == wcfg # {}

WarmCount(nss, states) == Cardinality({n \in DOMAIN nss : nss[n].state \in states})
TickEnds == recon.pc # "idle" /\ recon'.pc = "idle"
ReconSteps == recon' # recon

\* C23: a reconciliation tick that found fewer warm namespaces than desired
\* ends with at least desired warm namespaces, whichever indices the ones it
\* found occupy (nothing else deletes during the tick, no create fails).
C23_TickFillsToDesired ==
    [][TickEnds => Cardinality(DOMAIN namespaces') >= recon.desired]_vars

\* C24: with the pool goroutine, the kubelet and the handler scheduled fairly,
\* whenever no warm namespace is claimed any more the ready warm namespaces
\* come back to the desired number.
C24_PoolIsReplenished ==
    []<>(\/ ~booted
         \/ WarmCount(namespaces, {"claimed"}) > 0
         \/ WarmCount(namespaces, {"ready"}) >= desiredSize)

\* C25: a step of the reconciliation tick deletes no warm namespace; a tick
\* that listed at least desired warm namespaces creates none; and at the end
\* of a tick the ready and creating warm namespaces number at most
\* max(desired, the number listed).
C25_TickOnlyGrows ==
    [][ReconSteps =>
          /\ DOMAIN namespaces \subseteq DOMAIN namespaces'
          /\ (recon.pc # "idle" /\ Len(recon.items) >= recon.desired)
                 => DOMAIN namespaces' = DOMAIN namespaces
          /\ TickEnds
                 => WarmCount(namespaces', {"ready", "creating"})
                        <= IF recon.desired > Len(recon.items)
                           THEN recon.desired ELSE Len(recon.items)]_vars

\* a tick that listed as many warm namespaces as desired is about to end
\* while an index below desired is free
C25_Witness ==
    /\ recon.pc = "promote"
    /\ recon.i > Len(recon.items)
    /\ Len(recon.items) >= recon.desired
    /\ \E n \in 1..recon.desired : n \notin DOMAIN namespaces

\* C26: a warm namespace is deleted only by the reaper's loop, when the
\* namespace is in state claimed and its listed last_exec_at is not "0" and
\* more than idleTTL before the reaper's now.
C26_ReapsOnlyIdleClaimed ==
    [][\A n \in DOMAIN namespaces \ DOMAIN namespaces' :
           /\ reaper.pc = "loop" /\ reaper.i <= Len(reaper.items)
           /\ reaper.items[reaper.i].name = n
           /\ namespaces[n].state = "claimed"
           /\ reaper.items[reaper.i].state = "claimed"
           /\ reaper.items[reaper.i].lastExecAt # 0
           /\ reaper.at - reaper.items[reaper.i].lastExecAt > idleTTL]_vars

\* the reaper's loop has deleted an idle claimed namespace and passed over a
\* claimed one that was within idleTTL, while a ready one is still there
C26_Witness ==
    /\ reaper.pc = "loop"
    /\ \E j \in 1..(reaper.i - 1) :
           /\ reaper.items[j].name \notin DOMAIN namespaces
           /\ reaper.at - reaper.items[j].lastExecAt > idleTTL
    /\ \E j \in 1..(reaper.i - 1) :
           /\ reaper.items[j].name \in DOMAIN namespaces
           /\ reaper.at - reaper.items[j].lastExecAt = idleTTL
    /\ WarmCount(namespaces, {"ready"}) > 0

(***************************************************************************)
(* The sandbox idle reaper                                                 *)
(***************************************************************************)
\* last_exec_at, or the creation time when it is unset or "0"
LastUse(ns) ==
    IF ns.lastExecAt = {} \/ ns.lastExecAt = {0} THEN ns.created
    ELSE CHOOSE t \in ns.lastExecAt : TRUE

IsSandboxName(name) == Len(name) >= 4 /\ SubSeq(name, 1, 4) = <<"s", "b", "x", "-">>

\* an idle sandbox: its name starts with sbx-, it is not labelled
\* sbx.allocated=false and its last use is more than idleTTL ago
IdleSandbox(n) ==
    /\ n \in DOMAIN cluster
    /\ IsSandboxName(n)
    /\ cluster[n].allocated # {"false"}
    /\ now - LastUse(cluster[n]) > idleTTL

PoolEnabled ==
    \E c \in wcfg : IF c.autosize THEN c.max > 0 \/ c.min > 0 ELSE c.size > 0

\* the create requests answered 200, served by a warm claim or not
Succeeded(warm) == {r \in Claimers : creq[r].code = 200 /\ creq[r].warmClaimed = warm}

\* C28: a create request is served by a warm claim only when it carries no
\* id and the pool is enabled; a request with an id is provisioned in the
\* namespace sbx-<id>; the warm-hit counter counts exactly the successful
\* creates served by a claim, the cold counter all other successful creates.
C28_WarmOnlyWithoutId ==
    /\ \A r \in Claimers :
          /\ creq[r].warmClaimed => creq[r].req.id = <<>> /\ PoolEnabled
          /\ creq[r].req.id # <<>> /\ creq[r].pc \in {"get", "create", "respond"}
                => creq[r].ns = <<"s", "b", "x", "-">> \o creq[r].req.id
          /\ creq[r].req.id # <<>> /\ creq[r].code = 200
                => creq[r].ns = <<"s", "b", "x", "-">> \o creq[r].req.id
    /\ metrics.warmHit = Cardinality(Succeeded(TRUE))
    /\ metrics.cold = Cardinality(Succeeded(FALSE))
    /\ metrics.creates = metrics.warmHit + metrics.cold

\* with the pool enabled and a ready warm namespace, a request without an id
\* was served by a claim and a request with an id was provisioned cold
C28_Witness ==
    /\ PoolEnabled
    /\ \E r \in Claimers : creq[r].code = 200 /\ creq[r].warmClaimed
    /\ \E r \in Claimers :
          /\ creq[r].code = 200 /\ ~creq[r].warmClaimed /\ creq[r].req.id = <<"x">>
          /\ \E n \in DOMAIN namespaces : namespaces[n].state = "ready"

\* C29: two create requests for the same id, overlapping or not, are both
\* answered 200 and leave the namespace and the pod of that id.
C29_ConcurrentCreatesSucceed ==
    \A r1, r2 \in Claimers :
        /\ r1 # r2
        /\ creq[r1].req.id = <<"x">> /\ creq[r2].req.id = <<"x">>
        /\ creq[r1].pc = "done" /\ creq[r2].pc = "done"
        => /\ creq[r1].code = 200 /\ creq[r2].code = 200
           /\ <<"s", "b", "x", "-", "x">> \in kube.namespace
           /\ <<"s", "b", "x", "-", "x">> \in kube.pod

(***************************************************************************)
(* The ingest endpoint                                                     *)
(***************************************************************************)
\* the ingest handler takes the frame at the head of the connection
IngestReads == ing.pc = "read" /\ wire # <<>> /\ wire' = Tail(wire)

\* C30: an event received on the ingest connection of a sandbox is published
\* with that sandbox's id, whatever id the client sent, and with the hub's
\* next seq, whatever seq the client sent; a frame that does not parse
\* publishes nothing, takes no seq and leaves the connection reading.
C30_IngestStampsEvents ==
    [][/\ IngestReads /\ ~Head(wire).malformed
          => /\ hubSeq' = hubSeq + 1
             /\ ing'.pc = "stamped"
             /\ ing'.evt = [SandboxID |-> "s1", ExecID |-> Head(wire).ExecID,
                            Seq |-> hubSeq', Type |-> Head(wire).Type]
       /\ IngestReads /\ Head(wire).malformed
          => /\ hubSeq' = hubSeq
             /\ published' = published /\ buffers' = buffers /\ chans' = chans
             /\ ing'.pc = "read"
       /\ ing.pc = "stamped" /\ ing'.pc = "read"
          => /\ published' = [published EXCEPT !["s1"] = Append(@, ing.evt)]
             /\ hubSeq' = hubSeq]_vars

\* the handler has passed over a frame that did not parse and has published
\* an event of the connection; it now holds an event that was sent with
\* another sandbox's id and a seq of the client's, stamped with its own
\* sandbox and the hub's seq
C30_Witness ==
    /\ ing.dropped
    /\ \E i \in 1..Len(published["s1"]) : published["s1"][i].ExecID = "e1"
    /\ published["s2"] = <<>>
    /\ ing.pc = "stamped"
    /\ ing.msg.SandboxID = "s2" /\ ing.msg.Seq = MaxSeq
    /\ ing.evt.SandboxID = "s1" /\ ing.evt.Seq = hubSeq /\ ing.evt.Seq < MaxSeq

(***************************************************************************)
(* The sidecar forwarder                                                   *)
(***************************************************************************)
\* the forwarder puts an event of exec e on the connection
Sends(e, type) == wire' = Append(wire, [malformed |-> FALSE, SandboxID |-> "",
                                        ExecID |-> e, Seq |-> 0, Type |-> type])

\* C31: the forwarder sends a start only for an exec whose start was never
\* sent and an exit only for one whose exit was never sent, and it never
\* forgets that it sent them (so each is sent at most once, whatever fails);
\* it sends output and exit only after the start; and it sends the exit only
\* after the exit file is there and both output files are sent up to their
\* sizes.
C31_ForwarderSendsOnce ==
    [][\A e \in ExecIDs :
          /\ fwd[e].startSent => fwd'[e].startSent
          /\ fwd[e].exitSent => fwd'[e].exitSent
          /\ Sends(e, "start") => ~fwd[e].startSent /\ fwd'[e].startSent
          /\ Sends(e, "output") => fwd[e].startSent
          /\ Sends(e, "exit") =>
                /\ fwd[e].startSent
                /\ ~fwd[e].exitSent /\ fwd'[e].exitSent
                /\ files[e].exit # {}
                /\ \A st \in {"stdout", "stderr"} : fwd[e].off[st] = files[e].size[st]]_vars

\* after a send failure and a reconnect, the exit of an exec that wrote to
\* both of its streams has been sent, while another exec has started
C31_Witness ==
    /\ ing.redialed
    /\ \E e \in ExecIDs :
          /\ fwd[e].exitSent
          /\ files[e].size["stdout"] > 0 /\ files[e].size["stderr"] > 0
          /\ \E e2 \in ExecIDs \ {e} : fwd[e2].startSent /\ ~fwd[e2].exitSent

(***************************************************************************)
(* The stream connection                                                   *)
(***************************************************************************)
\* the events of exec e in evts, in order
OfExec(evts, e) == SelectSeq(evts, LAMBDA evt : evt.ExecID = e)

\* C32: a stream connection opened with an exec_id filter has written only
\* events of that exec, the snapshot's before the live ones, and their seq
\* values are strictly increasing.
C32_FilteredStreamInSeqOrder ==
    \A u \in Subscribers :
        sconn[u].pc = "accepted" /\ sconn[u].execID # "" =>
            LET out == sconn[u].out
                snap == OfExec(SubSeq(subscr[u].snapshot, 1, sconn[u].i), sconn[u].execID)
            IN  /\ \A k \in 1..Len(out) : out[k].ExecID = sconn[u].execID
                /\ Len(out) >= Len(snap)
                /\ \A k \in 1..Len(snap) : out[k].Seq = snap[k].Seq
                /\ \A j, k \in 1..Len(out) : j < k => out[j].Seq < out[k].Seq

RECURSIVE IsSubseq(_, _)
\* a is b with some of its elements left out
IsSubseq(a, b) ==
    IF a = <<>> THEN TRUE
    ELSE IF b = <<>> THEN FALSE
    ELSE IF Head(a) = Head(b) THEN IsSubseq(Tail(a), Tail(b))
    ELSE IsSubseq(a, Tail(b))

\* the events of evts a connection with exec_id filter f writes
Kept(evts, f) == SelectSeq(evts, LAMBDA evt : f = "" \/ evt.ExecID = f)

\* what the connection has written after the snapshot, followed by what its
\* channel still holds: the live events, as far as its filter lets them through
LiveEvents(u) ==
    LET f == sconn[u].execID
        snap == Kept(SubSeq(subscr[u].snapshot, 1, sconn[u].i), f)
    IN  SubSeq(sconn[u].out, Len(snap) + 1, Len(sconn[u].out))
            \o Kept(chans[u].queue, f)

\* C38: for a subscriber, no event is both in the snapshot subscribe returned
\* and among the events of its channel, received or still queued, and the
\* channel's events are, in order, events published to the sandbox, without
\* repetition.
C38_SnapshotAndLiveDisjoint ==
    \A u \in Subscribers :
        subscr[u].pc = "streaming" /\ sconn[u].pc = "accepted" =>
            LET snap == subscr[u].snapshot
                live == LiveEvents(u)
                queue == chans[u].queue
            IN  /\ \A j \in 1..Len(snap), k \in 1..Len(live) : snap[j] # live[k]
                /\ \A j \in 1..Len(snap), k \in 1..Len(queue) : snap[j] # queue[k]
                /\ IsSubseq(live, published[subscr[u].sandbox])
                /\ IsSubseq(queue, published[subscr[u].sandbox])

\* an unfiltered connection that got a snapshot, has written it and a live
\* event, and has another live event waiting
C38_Witness ==
    \E u \in Subscribers :
        /\ subscr[u].pc = "streaming" /\ sconn[u].pc = "accepted"
        /\ sconn[u].execID = ""
        /\ subscr[u].snapshot # <<>>
        /\ sconn[u].i = Len(subscr[u].snapshot)
        /\ Len(sconn[u].out) > Len(subscr[u].snapshot)
        /\ chans[u].queue # <<>>

(***************************************************************************)
(* Cancel handles and duplicate keys                                       *)
(***************************************************************************)
\* C34: however often requestCancel is called on an exec that is not
\* terminal, its cancel handle is invoked at most once, because the call that
\* invokes it drops it from the record.
C34_HandleInvokedAtMostOnce ==
    \A k \in AllKeys :
        /\ invoked[k] <= 1
        /\ invoked[k] = 1 /\ HasRec(bySandbox, k[1], k[2]) => RecAt(k).cancel = {}

\* C36: createRunning on a key that is present leaves the record as it was.
C36_DuplicateCreateFails ==
    [][\A k \in AllKeys :
          lastReg'.op = "createRunning" /\ lastReg'.sid = k[1] /\ lastReg'.eid = k[2]
          /\ HasRec(bySandbox, k[1], k[2])
          => bySandbox'[k[1]][k[2]] = bySandbox[k[1]][k[2]]]_vars

\* C37: the cancel handle of an exec is not invoked once the exec's record
\* has a terminal status.
C37_NoInvokeAfterTerminal ==
    [][\A k \in AllKeys :
          invoked'[k] > invoked[k] /\ HasRec(bySandbox, k[1], k[2])
          => RecAt(k).status \notin TerminalStatuses]_vars

\* C33: requestCancel calls the handle with the registry mutex released, so a
\* cancel request, a finish (by the runner or by the handle itself) and a
\* status request that have started all come to their end, whatever the
\* interleaving.
C33_CancelNeverDeadlocks ==
    /\ \A c \in LockCancellers : (thr[c].pc # "idle") ~> (thr[c].pc = "done")
    /\ (thr["runner"].pc = "finish") ~> (thr["runner"].pc = "done")
    /\ (thr["getter"].pc = "get") ~> (thr["getter"].pc = "done")

C33_Witness ==
    /\ hnd.kind = "finish"
    /\ \E c \in LockCancellers : thr[c].pc = "done" /\ thr[c].handle # {}
    /\ invoked[<<LockSandbox, LockExec>>] >= 1
    /\ thr["runner"].pc = "done"
    /\ thr["getter"].pc = "done"
    /\ mu = {}

C39_UnclaimedWarmIsNeverReaped ==
    [][\A n \in DOMAIN cluster \ DOMAIN cluster' :
          /\ n # WarmControlNamespace
          /\ ~(\E i \in 1..PoolSize : n = warmNamespaceName(i)
                                       /\ cluster[n].state \in {"creating", "ready"})]_vars

\* C40: a sandbox namespace is not deleted while an async exec is running in
\* it, nor less than idleTTL after an exec in it ended.
C40_NoReapDuringOrSoonAfterExec ==
    [][\A n \in (DOMAIN cluster \ DOMAIN cluster') \cap ClusterNames :
          /\ sbxRuns[n].pc # "running"
          /\ sbxRuns[n].pc = "done" => now - sbxRuns[n].endedAt >= idleTTL]_vars

====
